---------------------------- MODULE Spec2Model ----------------------------
(***************************************************************************)
(* Text_morph_summarization: the orchestration around the sequence         *)
(* generator.  Backend/summarizer.py and Backend/fine_tuned_summarizer.py  *)
(* (chunk-and-reduce summarization), Backend/parahrase.py (two-candidate   *)
(* paraphrase with retry and correction) and the module-level model caches *)
(* they share between the server's worker threads.                         *)
(*                                                                         *)
(* A Python str is a sequence of one-character strings; a list of str is a *)
(* sequence of such sequences.                                             *)
(***************************************************************************)
EXTENDS Integers, Sequences, FiniteSets, TLC

(***************************************************************************)
(* Bounds of the model.                                                    *)
(***************************************************************************)
\* longest text handed to the chunker on its own
MaxChunkTextLen == 5
\* largest max_words handed to the chunker on its own
MaxK == 3
\* most words of a text handed to a summarizer
MaxSumWords == 5
\* max_words of the summarizers' chunking loop (800 in the source, scaled to
\* the model's texts so that one, two and three chunks all occur)
SumMaxWords == 2
\* most words of one generated summary
MaxSumGenWords == 1
\* most words of a text handed to the paraphraser
MaxParaWords == 2
\* most words of one generated paraphrase
MaxParaGenWords == 1
\* the worker threads that serve requests at the same time
MaxThreads == 2

(***************************************************************************)
(* str methods                                                             *)
(***************************************************************************)
Whitespace == {" "}

\* one character of str.lower(), for the capitals the model's texts use
LowerChar(c) ==
  CASE c = "A" -> "a"
    [] c = "B" -> "b"
    [] c = "R" -> "r"
    [] c = "T" -> "t"
    [] OTHER -> c

\* str.lower()
Lower(s) == [i \in 1..Len(s) |-> LowerChar(s[i])]

RECURSIVE LStrip(_)
\* str.lstrip()
LStrip(s) ==
  IF s = <<>> THEN <<>>
  ELSE IF Head(s) \in Whitespace THEN LStrip(Tail(s)) ELSE s

RECURSIVE RStrip(_)
\* str.rstrip()
RStrip(s) ==
  IF s = <<>> THEN <<>>
  ELSE IF s[Len(s)] \in Whitespace THEN RStrip(SubSeq(s, 1, Len(s) - 1)) ELSE s

\* a mutant of Strip: nothing is removed
StripNothing(s) == s

\* str.strip()
Strip(s) == RStrip(LStrip(s))

RECURSIVE SplitAcc(_, _, _)
SplitAcc(s, cur, acc) ==
  IF s = <<>>
  THEN IF cur = <<>> THEN acc ELSE Append(acc, cur)
  ELSE IF Head(s) \in Whitespace
       THEN SplitAcc(Tail(s), <<>>, IF cur = <<>> THEN acc ELSE Append(acc, cur))
       ELSE SplitAcc(Tail(s), Append(cur, Head(s)), acc)

\* str.split() with no argument: the maximal runs of non-whitespace, in order
Split(s) == SplitAcc(s, <<>>, <<>>)

RECURSIVE Join(_, _)
\* sep.join(parts)
Join(parts, sep) ==
  IF parts = <<>> THEN <<>>
  ELSE IF Len(parts) = 1 THEN parts[1]
  ELSE parts[1] \o sep \o Join(Tail(parts), sep)

\* set(words)
ToSet(ws) == {ws[i] : i \in 1..Len(ws)}

Min(a, b) == IF a < b THEN a ELSE b
Max(a, b) == IF a > b THEN a ELSE b

\* the least element of a non-empty set of integers
SetMin(S) == CHOOSE x \in S : \A y \in S : x <= y

\* all sequences over S of length 0..n
SeqsUpTo(S, n) == UNION {[1..m -> S] : m \in 0..n}

(***************************************************************************)
(* _chunk_text_by_words: a generator.  It splits the text once, then each  *)
(* resumption yields " ".join(words[i:i + max_words]) for the next i of    *)
(* range(0, len(words), max_words).                                        *)
(***************************************************************************)

\* a mutant of ChunkSlice: the slice stops one word early
ChunkSliceShort(words, i, max_words) ==
  SubSeq(words, i + 1, Min(i + max_words, Len(words)) - 1)

\* words[i:i + max_words]
ChunkSlice(words, i, max_words) ==
  SubSeq(words, i + 1, Min(i + max_words, Len(words)))

\* the chunk yielded at index i
ChunkAt(words, i, max_words) == Join(ChunkSlice(words, i, max_words), <<" ">>)

VARIABLES
  g_pc,      \* chunker run on its own: "idle" | "start" | "loop" | "done"
  g_text,    \* its text argument
  g_k,       \* its max_words argument
  g_words,   \* words = text.split()
  g_i,       \* the loop variable i of range(0, len(words), max_words)
  g_out      \* the chunks yielded so far, in yield order

gvars == <<g_pc, g_text, g_k, g_words, g_i, g_out>>

VARIABLES
  sum_loaded,  \* summarizer._loaded: model key -> handle
  ft_loaded,   \* fine_tuned_summarizer._LOADED: model choice -> handle
  paraphrasing_pipelines,  \* parahrase.paraphrasing_pipelines: name -> handle
  n_loads      \* per cache and identifier, the loads completed so far

cvars == <<sum_loaded, ft_loaded, paraphrasing_pipelines, n_loads>>

VARIABLES
  s_pc,        \* position in the summarize call, "idle" when none runs
  s_fn,        \* "summarize_text" | "summarize_text_with_model"
  s_text,      \* the text argument
  s_model,     \* the model_choice argument
  s_length,    \* the summary_length argument
  s_handle,    \* the (tokenizer, model, device) handle in use
  s_words,     \* the chunk generator's words
  s_i,         \* the chunk generator's i
  s_started,   \* whether the chunk generator has run its first statement
  s_inp,       \* the prompt of the generation call in progress
  s_decoded,   \* what tokenizer.decode returned for the latest generation
  s_summaries, \* chunk_summaries
  s_calls,     \* every model.generate call issued, in order
  s_result     \* how the call ended

svars == <<s_pc, s_fn, s_text, s_model, s_length, s_handle, s_words, s_i,
           s_started, s_inp, s_decoded, s_summaries, s_calls, s_result>>

VARIABLES
  p_pc,            \* position in the paraphrase_text call, "idle" when none runs
  transformers_ok, \* whether the transformers import succeeded at start-up
  p_text,          \* text
  p_model_name,    \* model_name
  p_creativity,    \* creativity, in hundredths
  p_length,        \* length
  p_out1,          \* the text of output_ids_1[0]
  p_texts,         \* paraphrased_texts
  p_settled,       \* the pair as decoded last: the initial or the retried one
  p_calls,         \* every model.generate call issued, in order
  p_result         \* how the call ended

pvars == <<p_pc, transformers_ok, p_text, p_model_name, p_creativity, p_length,
           p_out1, p_texts, p_settled, p_calls, p_result>>

VARIABLES
  t_pc,      \* per worker thread, its position in the call it serves
  t_req,     \* per worker thread, the function called and its model argument
  t_local,   \* per worker thread, the tuple its own load has made
  t_handle   \* per worker thread, the tuple its call generates with

tvars == <<t_pc, t_req, t_local, t_handle>>

VARIABLES
  m_pc,       \* position in the /evaluate/metrics handler, "idle" when none runs
  m_payload,  \* the MetricsRequest
  m_called,   \* the calls of calculate_all_metrics made
  m_response  \* the HTTP response

mvars == <<m_pc, m_payload, m_called, m_response>>

VARIABLES
  users,      \* table users: email -> row (id, password)
  resets,     \* table password_resets: the rows, in order of insertion
  now,        \* datetime.utcnow(), in minutes
  outbox,     \* the reset e-mails handed to the background tasks
  r_last,     \* the last endpoint call served and its response
  r_success   \* per token, the reset_password calls that have succeeded

rvars == <<users, resets, now, outbox, r_last, r_success>>

VARIABLES
  b_pc,       \* position in the bounds computation of paraphrase_text
  b_words,    \* len(text.split())
  b_length,   \* length
  b_initial,  \* the keyword arguments of the two initial generate calls
  b_retry     \* the keyword arguments of the two retry generate calls

bvars == <<b_pc, b_words, b_length, b_initial, b_retry>>

VARIABLES
  history,    \* table history: the rows, in order of insertion
  h_next_id,  \* the next value of the auto-increment key of history
  h_now,      \* datetime.now(timezone.utc), in seconds
  h_last      \* the last POST /history call served and its response

hvars == <<history, h_next_id, h_now, h_last>>

\* the state of the bounds computation and of the history endpoint
xvars == <<bvars, hvars>>

\* the state of the components a specification does not exercise
ovars == <<mvars, rvars, xvars>>

\* the state of the summarize and paraphrase components
core == <<gvars, cvars, svars, pvars, tvars>>

vars == <<gvars, cvars, svars, pvars, tvars, ovars>>

(***************************************************************************)
(* Model identifiers, as the str values the code compares and lower-cases  *)
(***************************************************************************)
\* "pegasus"
N_pegasus == <<"p", "e", "g", "a", "s", "u", "s">>
\* "bart"
N_bart == <<"b", "a", "r", "t">>
\* "BART"
N_BART == <<"B", "A", "R", "T">>
\* "flan-t5"
N_flan_t5 == <<"f", "l", "a", "n", "-", "t", "5">>
\* "t5"
N_t5 == <<"t", "5">>
\* "gpt2", a name no table of the program holds
N_gpt2 == <<"g", "p", "t", "2">>
\* "google/pegasus-xsum"
HF_pegasus ==
  <<"g", "o", "o", "g", "l", "e", "/", "p", "e", "g", "a", "s", "u",
    "s", "-", "x", "s", "u", "m">>
\* "facebook/bart-large-cnn"
HF_bart ==
  <<"f", "a", "c", "e", "b", "o", "o", "k", "/", "b", "a", "r", "t",
    "-", "l", "a", "r", "g", "e", "-", "c", "n", "n">>
\* "google/flan-t5-large"
HF_flan_t5 ==
  <<"g", "o", "o", "g", "l", "e", "/", "f", "l", "a", "n", "-", "t",
    "5", "-", "l", "a", "r", "g", "e">>

\* summarizer.MODELS: friendly name -> HF model id
MODELS ==
  [k \in {N_pegasus, N_bart, N_flan_t5} |->
     CASE k = N_pegasus -> HF_pegasus
       [] k = N_bart -> HF_bart
       [] k = N_flan_t5 -> HF_flan_t5]

\* "Error: no text to summarize."
ErrNoText ==
  <<"E", "r", "r", "o", "r", ":", " ", "n", "o", " ", "t", "e", "x",
    "t", " ", "t", "o", " ", "s", "u", "m", "m", "a", "r", "i", "z",
    "e", ".">>
\* "Error: nothing to summarize."
ErrNothing ==
  <<"E", "r", "r", "o", "r", ":", " ", "n", "o", "t", "h", "i", "n",
    "g", " ", "t", "o", " ", "s", "u", "m", "m", "a", "r", "i", "z",
    "e", ".">>

(***************************************************************************)
(* Outcomes of a call, and cache handles                                   *)
(***************************************************************************)
NoResult == [kind |-> "none", value |-> <<>>, exc |-> ""]
\* return value
Return(v) == [kind |-> "return", value |-> v, exc |-> ""]
\* raise exc
Raise(e) == [kind |-> "raise", value |-> <<>>, exc |-> e]

\* the (tokenizer, model, device) tuple made by the n-th load of key
Handle(key, n) == [key |-> key, serial |-> n]
NoHandle == [key |-> <<>>, serial |-> 0]

EmptyCache == [k \in {} |-> NoHandle]
\* cache[key] = h
CachePut(cache, key, h) ==
  [k \in DOMAIN cache \cup {key} |-> IF k = key THEN h ELSE cache[k]]

\* "t5-base"
N_t5_base == <<"t", "5", "-", "b", "a", "s", "e">>
\* "google/flan-ul2"
N_flan_ul2 ==
  <<"g", "o", "o", "g", "l", "e", "/", "f", "l", "a", "n", "-", "u",
    "l", "2">>
\* the model names paraphrase_text is called with
ParaModelNames == {HF_pegasus, HF_bart, HF_flan_t5, N_flan_ul2, N_t5_base}

Caches == {"summarizer", "fine_tuned", "paraphrase"}
\* the identifiers each cache can come to hold
CacheKeys(c) ==
  IF c = "summarizer" THEN DOMAIN MODELS
  ELSE IF c = "fine_tuned" THEN {N_t5, N_bart}
  ELSE ParaModelNames
LoadIds == UNION {{<<c, k>> : k \in CacheKeys(c)} : c \in Caches}
NoLoads == [id \in LoadIds |-> 0]

Threads == 1..MaxThreads

TIdle ==
  /\ t_pc = [t \in Threads |-> "idle"]
  /\ t_req = [t \in Threads |-> <<"", <<>>>>]
  /\ t_local = [t \in Threads |-> NoHandle]
  /\ t_handle = [t \in Threads |-> NoHandle]

CIdle ==
  /\ sum_loaded = EmptyCache
  /\ ft_loaded = EmptyCache
  /\ paraphrasing_pipelines = EmptyCache
  /\ n_loads = NoLoads

PIdle ==
  /\ p_pc = "idle" /\ transformers_ok = TRUE /\ p_text = <<>>
  /\ p_model_name = <<>> /\ p_creativity = 0 /\ p_length = ""
  /\ p_out1 = <<>> /\ p_texts = <<>> /\ p_settled = <<>> /\ p_calls = <<>>
  /\ p_result = NoResult

SIdle ==
  /\ s_pc = "idle" /\ s_fn = "" /\ s_text = <<>> /\ s_model = <<>>
  /\ s_length = "" /\ s_handle = NoHandle /\ s_words = <<>> /\ s_i = 0
  /\ s_started = FALSE /\ s_inp = <<>> /\ s_decoded = <<>>
  /\ s_summaries = <<>> /\ s_calls = <<>> /\ s_result = NoResult

ChunkTexts == SeqsUpTo({"a", "b", " "}, MaxChunkTextLen)

GIdle ==
  /\ g_pc = "idle" /\ g_text = <<>> /\ g_k = 1
  /\ g_words = <<>> /\ g_i = 0 /\ g_out = <<>>

\* no response yet
NoResponse == [status |-> 0, body |-> <<>>]

MIdle ==
  /\ m_pc = "idle"
  /\ m_payload = [reference |-> <<>>, candidate |-> <<>>, original_text |-> <<>>]
  /\ m_called = <<>>
  /\ m_response = NoResponse

\* no endpoint call served yet
NoCall == [op |-> "none", arg |-> <<>>, response |-> NoResponse]

RIdle ==
  /\ users = <<>> /\ resets = <<>> /\ now = 0
  /\ outbox = <<>> /\ r_last = NoCall /\ r_success = <<>>

BIdle ==
  /\ b_pc = "idle" /\ b_words = 0 /\ b_length = "medium"
  /\ b_initial = <<>> /\ b_retry = <<>>

\* no POST /history call served yet
NoPost ==
  [payload |-> [email |-> "", type |-> "", original_text |-> <<>>,
                result_text |-> <<>>, model |-> ""],
   at |-> 0, status |-> 0, id |-> 0, duplicate |-> FALSE]

HIdle ==
  /\ history = <<>> /\ h_next_id = 1 /\ h_now = 0 /\ h_last = NoPost

XIdle == BIdle /\ HIdle

OIdle == MIdle /\ RIdle /\ XIdle

InitChunk ==
  /\ g_pc = "start"
  /\ g_text \in ChunkTexts
  /\ g_k \in 1..MaxK
  /\ g_words = <<>> /\ g_i = 0 /\ g_out = <<>>
  /\ CIdle /\ SIdle /\ PIdle /\ TIdle /\ OIdle

\* words = text.split(); if not words: return
ChunkStart ==
  /\ g_pc = "start"
  /\ g_words' = Split(g_text)
  /\ g_pc' = IF Split(g_text) = <<>> THEN "done" ELSE "loop"
  /\ UNCHANGED <<g_text, g_k, g_i, g_out>>
  /\ UNCHANGED <<cvars, svars, pvars, tvars, ovars>>

\* one iteration of the for loop: yield, then advance i by max_words
ChunkYield ==
  /\ g_pc = "loop"
  /\ g_i < Len(g_words)
  /\ g_out' = Append(g_out, ChunkAt(g_words, g_i, g_k))
  /\ g_i' = g_i + g_k
  /\ UNCHANGED <<g_pc, g_text, g_k, g_words>>
  /\ UNCHANGED <<cvars, svars, pvars, tvars, ovars>>

\* the range is exhausted: the generator returns
ChunkStop ==
  /\ g_pc = "loop"
  /\ g_i >= Len(g_words)
  /\ g_pc' = "done"
  /\ UNCHANGED <<g_text, g_k, g_words, g_i, g_out>>
  /\ UNCHANGED <<cvars, svars, pvars, tvars, ovars>>

NextChunk == ChunkStart \/ ChunkYield \/ ChunkStop

SpecChunk == InitChunk /\ [][NextChunk]_vars

(***************************************************************************)
(* summarize_text (summarizer.py) and summarize_text_with_model            *)
(* (fine_tuned_summarizer.py): one call, from entry to its return or raise *)
(***************************************************************************)

\* a mutant of LengthMap: a class outside the table falls to short
LengthMapDefaultShort(summary_length) ==
  CASE summary_length = "short" -> <<30, 80>>
    [] summary_length = "medium" -> <<80, 150>>
    [] summary_length = "long" -> <<150, 300>>
    [] OTHER -> <<30, 80>>

\* length_map.get(summary_length, length_map["medium"]): (min_len, max_len)
LengthMap(summary_length) ==
  CASE summary_length = "short" -> <<30, 80>>
    [] summary_length = "medium" -> <<80, 150>>
    [] summary_length = "long" -> <<150, 300>>
    [] OTHER -> <<80, 150>>

min_len == LengthMap(s_length)[1]
max_len == LengthMap(s_length)[2]

\* the keyword arguments of a model.generate call; 0 and FALSE stand for an
\* argument the call does not pass, penalties are in hundredths
Kwargs(max_l, min_l, beams, lp, nrn, enrn, rp, sample, top_p, top_k) ==
  [max_length |-> max_l, min_length |-> min_l, num_beams |-> beams,
   length_penalty |-> lp, no_repeat_ngram_size |-> nrn,
   encoder_no_repeat_ngram_size |-> enrn, repetition_penalty |-> rp,
   do_sample |-> sample, top_p |-> top_p, top_k |-> top_k,
   early_stopping |-> TRUE]

\* summarize_text's generate arguments
SummarizeKwargs(min_l, max_l) ==
  Kwargs(max_l, min_l, 6, 200, 0, 0, 0, FALSE, 0, 0)

\* _generate_once's gen_kwargs, with the BART anti-copy constraints
GenKwargs(model_choice, min_l, max_l) ==
  IF Lower(model_choice) = N_bart
  THEN Kwargs(max_l, min_l, 6, 200, 3, 3, 110, FALSE, 0, 0)
  ELSE Kwargs(max_l, min_l, 6, 200, 0, 0, 0, FALSE, 0, 0)

\* _generate_once's stricter settings of its second call
StricterKwargs(min_l, max_l) ==
  Kwargs(Max((max_l * 9) \div 10, min_l + 5), min_l, 4, 250, 4, 4, 115,
         TRUE, 90, 50)

\* _too_similar(src, cand)
TooSimilar(src, cand) ==
  IF src = <<>> \/ cand = <<>> THEN FALSE
  ELSE LET s == Lower(Strip(src))
           c == Lower(Strip(cand))
           src_words == Split(s)
           cand_words == Split(c)
           set_src == ToSet(src_words)
           set_cand == ToSet(cand_words)
       IN  IF s = c THEN TRUE
           ELSE IF cand_words = <<>> THEN FALSE
           ELSE \/ 100 * Len(cand_words) > 95 * Max(Len(src_words), 1)
                \/ 100 * Cardinality(set_src \cap set_cand)
                     > 95 * Max(Cardinality(set_cand), 1)

SumFns == {"summarize_text", "summarize_text_with_model"}
ModelChoices(fn) ==
  IF fn = "summarize_text" THEN {N_pegasus, N_bart, N_gpt2}
  ELSE {N_t5, N_bart, N_BART, <<>>, N_gpt2}
LengthClasses == {"short", "medium", "long", "tiny"}

SumWordSeqs == SeqsUpTo({<<"a">>}, MaxSumWords) \ {<<>>}
\* the texts a summarizer is called with: empty, blank, words joined by
\* spaces, and the same with whitespace around them
SumTexts ==
  {<<>>, <<" ">>}
    \cup {Join(ws, <<" ">>) : ws \in SumWordSeqs}
    \cup {<<" ">> \o Join(ws, <<" ">>) \o <<" ">> : ws \in SumWordSeqs}

SumGenWordSeqs == SeqsUpTo({<<"a">>, <<"b">>}, MaxSumGenWords) \ {<<>>}
\* what tokenizer.decode can return for a generation
SumOutputs ==
  {<<>>}
    \cup {Join(ws, <<" ">>) : ws \in SumGenWordSeqs}
    \cup {<<" ">> \o Join(ws, <<" ">>) \o <<" ">> : ws \in SumGenWordSeqs}

\* model_choice = (model_choice or "t5").lower()
FtKey(model_choice) == Lower(IF model_choice = <<>> THEN N_t5 ELSE model_choice)

\* the cache a function loads through
CacheOf(fn) ==
  CASE fn = "summarize_text" -> "summarizer"
    [] fn = "summarize_text_with_model" -> "fine_tuned"
    [] fn = "paraphrase_text" -> "paraphrase"
\* the key it looks up there
KeyOf(fn, model_choice) ==
  IF fn = "summarize_text_with_model" THEN FtKey(model_choice) ELSE model_choice

InitSum ==
  /\ GIdle /\ PIdle /\ TIdle /\ OIdle
  /\ s_pc = "entry"
  /\ s_fn \in SumFns
  /\ s_model \in ModelChoices(s_fn)
  /\ s_length \in LengthClasses
  /\ s_text \in SumTexts
  /\ s_handle = NoHandle /\ s_words = <<>> /\ s_i = 0 /\ s_started = FALSE
  /\ s_inp = <<>> /\ s_decoded = <<>> /\ s_summaries = <<>> /\ s_calls = <<>>
  /\ s_result = NoResult
  \* an earlier call has loaded the model, or none has
  /\ \E warm \in BOOLEAN :
       LET c == CacheOf(s_fn)
           k == KeyOf(s_fn, s_model)
           hit == warm /\ k \in CacheKeys(c)
           one == CachePut(EmptyCache, k, Handle(k, 1))
       IN  /\ sum_loaded = IF hit /\ c = "summarizer" THEN one ELSE EmptyCache
           /\ ft_loaded = IF hit /\ c = "fine_tuned" THEN one ELSE EmptyCache
           /\ paraphrasing_pipelines = EmptyCache
           /\ n_loads = [id \in LoadIds |-> IF hit /\ id = <<c, k>> THEN 1 ELSE 0]

\* if not text or not text.strip(): return "Error: no text to summarize."
SumEntry ==
  /\ s_pc = "entry"
  /\ IF s_text = <<>> \/ Strip(s_text) = <<>>
     THEN /\ s_result' = Return(ErrNoText)
          /\ s_pc' = "done"
     ELSE /\ s_pc' = "load"
          /\ UNCHANGED s_result
  /\ UNCHANGED <<s_fn, s_text, s_model, s_length, s_handle, s_words, s_i,
                 s_started, s_inp, s_decoded, s_summaries, s_calls>>
  /\ UNCHANGED <<gvars, cvars, pvars, tvars, ovars>>

\* the call ends by raising
SumRaise(e) ==
  /\ s_result' = Raise(e)
  /\ s_pc' = "done"
  /\ UNCHANGED <<s_fn, s_text, s_model, s_length, s_handle, s_words, s_i,
                 s_started, s_inp, s_decoded, s_summaries, s_calls>>

\* the load returned handle h
SumLoaded(h) ==
  /\ s_handle' = h
  /\ s_pc' = "iter"
  /\ UNCHANGED <<s_fn, s_text, s_model, s_length, s_words, s_i, s_started,
                 s_inp, s_decoded, s_summaries, s_calls, s_result>>

\* summarizer.load_model(model_choice), run by one thread alone
LoadModel ==
  /\ s_pc = "load"
  /\ s_fn = "summarize_text"
  /\ \/ /\ s_model \notin DOMAIN MODELS
        /\ SumRaise("ValueError")
        /\ UNCHANGED cvars
     \/ /\ s_model \in DOMAIN MODELS
        /\ s_model \in DOMAIN sum_loaded
        /\ SumLoaded(sum_loaded[s_model])
        /\ UNCHANGED cvars
     \/ /\ s_model \in DOMAIN MODELS
        /\ s_model \notin DOMAIN sum_loaded
        /\ LET n == n_loads[<<"summarizer", s_model>>] + 1
           IN  /\ sum_loaded' = CachePut(sum_loaded, s_model, Handle(s_model, n))
               /\ n_loads' = [n_loads EXCEPT ![<<"summarizer", s_model>>] = n]
               /\ SumLoaded(Handle(s_model, n))
        /\ UNCHANGED <<ft_loaded, paraphrasing_pipelines>>
     \/ \* from_pretrained or model.to raises
        /\ s_model \in DOMAIN MODELS
        /\ s_model \notin DOMAIN sum_loaded
        /\ SumRaise("OSError")
        /\ UNCHANGED cvars
  /\ UNCHANGED <<gvars, pvars, tvars, ovars>>

\* fine_tuned_summarizer._load_model(model_choice), run by one thread alone
FtLoadModel ==
  /\ s_pc = "load"
  /\ s_fn = "summarize_text_with_model"
  /\ LET key == FtKey(s_model)
     IN  \/ /\ key \in DOMAIN ft_loaded
            /\ SumLoaded(ft_loaded[key])
            /\ UNCHANGED cvars
         \/ /\ key \notin DOMAIN ft_loaded
            /\ key \notin {N_t5, N_bart}
            /\ SumRaise("ValueError")
            /\ UNCHANGED cvars
         \/ \* the model directory is missing
            /\ key \notin DOMAIN ft_loaded
            /\ key \in {N_t5, N_bart}
            /\ SumRaise("FileNotFoundError")
            /\ UNCHANGED cvars
         \/ \* from_pretrained or model.to raises
            /\ key \notin DOMAIN ft_loaded
            /\ key \in {N_t5, N_bart}
            /\ SumRaise("OSError")
            /\ UNCHANGED cvars
         \/ /\ key \notin DOMAIN ft_loaded
            /\ key \in {N_t5, N_bart}
            /\ LET n == n_loads[<<"fine_tuned", key>>] + 1
               IN  /\ ft_loaded' = CachePut(ft_loaded, key, Handle(key, n))
                   /\ n_loads' = [n_loads EXCEPT ![<<"fine_tuned", key>>] = n]
                   /\ SumLoaded(Handle(key, n))
            /\ UNCHANGED <<sum_loaded, paraphrasing_pipelines>>
  /\ UNCHANGED <<gvars, pvars, tvars, ovars>>

\* for chunk in _chunk_text_by_words(text, max_words=800): resume the
\* generator; it yields the next chunk or returns
SumIter ==
  /\ s_pc = "iter"
  /\ LET words == IF s_started THEN s_words ELSE Split(s_text)
     IN  /\ s_words' = words
         /\ s_started' = TRUE
         /\ IF s_i < Len(words)
            THEN /\ s_inp' = ChunkAt(words, s_i, SumMaxWords)
                 /\ s_i' = s_i + SumMaxWords
                 /\ s_pc' = "gen_chunk"
            ELSE /\ s_pc' = "decide"
                 /\ UNCHANGED <<s_inp, s_i>>
  /\ UNCHANGED <<s_fn, s_text, s_model, s_length, s_handle, s_decoded,
                 s_summaries, s_calls, s_result>>
  /\ UNCHANGED <<gvars, cvars, pvars, tvars, ovars>>

\* which pass a generation belongs to: a chunk's, or the final one
PhaseOf(pc) == IF pc \in {"gen_chunk", "strict_chunk"} THEN "chunk" ELSE "reduce"

\* a mutant of PassMin: the floor of the final pass is above short's minimum
PassMinHighFloor(phase) == IF phase = "chunk" THEN min_len ELSE Max(min_len, 50)

\* the min_length of a pass: min_len, and max(min_len, 20) for the final pass
PassMin(phase) == IF phase = "chunk" THEN min_len ELSE Max(min_len, 20)

\* one model.generate call, as the log keeps it: where it was issued, its
\* prompt and arguments, and the decoded text it led to, stripped
Call(phase, attempt, prompt, kwargs, ok, decoded) ==
  [phase |-> phase, attempt |-> attempt, prompt |-> prompt, kwargs |-> kwargs,
   ok |-> ok, out |-> Strip(decoded)]

\* a mutant of Combined: the last chunk summary is left out
CombinedDropLast(chunk_summaries) ==
  Join(SubSeq(chunk_summaries, 1, Len(chunk_summaries) - 1), <<" ">>)

\* combined = " ".join(chunk_summaries)
Combined(chunk_summaries) == Join(chunk_summaries, <<" ">>)

\* a mutant of RetriesStricter: the retry is not kept to BART
RetriesStricterAnyModel(model_choice, inp_text, out) ==
  TooSimilar(inp_text, out)

\* a pass has produced v: chunk_summaries.append(v), or return v.strip()
Deliver(phase, v) ==
  IF phase = "chunk"
  THEN /\ s_summaries' = Append(s_summaries, v)
       /\ s_pc' = "iter"
       /\ UNCHANGED s_result
  ELSE /\ s_result' = Return(Strip(v))
       /\ s_pc' = "done"
       /\ UNCHANGED s_summaries

\* whether _generate_once retries: BART only, on an output that looks copied
RetriesStricter(model_choice, inp_text, out) ==
  Lower(model_choice) = N_bart /\ TooSimilar(inp_text, out)

\* the first model.generate of a pass: summarize_text's call, or
\* _generate_once up to its copy check
Generate ==
  /\ s_pc \in {"gen_chunk", "gen_reduce"}
  /\ LET phase == PhaseOf(s_pc)
         kw == IF s_fn = "summarize_text"
               THEN SummarizeKwargs(PassMin(phase), max_len)
               ELSE GenKwargs(s_model, PassMin(phase), max_len)
     IN  \/ \E decoded \in SumOutputs :
              /\ s_calls' = Append(s_calls, Call(phase, 1, s_inp, kw, TRUE, decoded))
              /\ s_decoded' = decoded
              /\ IF s_fn = "summarize_text"
                 THEN Deliver(phase, IF phase = "chunk" THEN Strip(decoded)
                                     ELSE decoded)
                 ELSE LET out == Strip(decoded)
                      IN  IF RetriesStricter(s_model, s_inp, out)
                          THEN /\ s_pc' = IF phase = "chunk" THEN "strict_chunk"
                                          ELSE "strict_reduce"
                               /\ UNCHANGED <<s_summaries, s_result>>
                          ELSE Deliver(phase, out)
         \/ \* model.generate raises
            /\ s_calls' = Append(s_calls, Call(phase, 1, s_inp, kw, FALSE, <<>>))
            /\ s_result' = Raise("RuntimeError")
            /\ s_pc' = "done"
            /\ UNCHANGED <<s_decoded, s_summaries>>
  /\ UNCHANGED <<s_fn, s_text, s_model, s_length, s_handle, s_words, s_i,
                 s_started, s_inp>>
  /\ UNCHANGED <<gvars, cvars, pvars, tvars, ovars>>

\* _generate_once's second model.generate, with the stricter settings
GenerateStricter ==
  /\ s_pc \in {"strict_chunk", "strict_reduce"}
  /\ LET phase == PhaseOf(s_pc)
         kw == StricterKwargs(PassMin(phase), max_len)
     IN  \/ \E decoded \in SumOutputs :
              /\ s_calls' = Append(s_calls, Call(phase, 2, s_inp, kw, TRUE, decoded))
              /\ s_decoded' = decoded
              /\ Deliver(phase, Strip(decoded))
         \/ \* model.generate raises
            /\ s_calls' = Append(s_calls, Call(phase, 2, s_inp, kw, FALSE, <<>>))
            /\ s_result' = Raise("RuntimeError")
            /\ s_pc' = "done"
            /\ UNCHANGED <<s_decoded, s_summaries>>
  /\ UNCHANGED <<s_fn, s_text, s_model, s_length, s_handle, s_words, s_i,
                 s_started, s_inp>>
  /\ UNCHANGED <<gvars, cvars, pvars, tvars, ovars>>

\* after the loop: no summary, one summary, or the final pass over
\* " ".join(chunk_summaries)
SumDecide ==
  /\ s_pc = "decide"
  /\ IF Len(s_summaries) = 0
     THEN /\ s_result' = Return(ErrNothing)
          /\ s_pc' = "done"
          /\ UNCHANGED s_inp
     ELSE IF Len(s_summaries) = 1
     THEN /\ s_result' = Return(s_summaries[1])
          /\ s_pc' = "done"
          /\ UNCHANGED s_inp
     ELSE /\ s_inp' = Combined(s_summaries)
          /\ s_pc' = "gen_reduce"
          /\ UNCHANGED s_result
  /\ UNCHANGED <<s_fn, s_text, s_model, s_length, s_handle, s_words, s_i,
                 s_started, s_decoded, s_summaries, s_calls>>
  /\ UNCHANGED <<gvars, cvars, pvars, tvars, ovars>>

NextSum ==
  \/ SumEntry
  \/ LoadModel
  \/ FtLoadModel
  \/ SumIter
  \/ Generate
  \/ GenerateStricter
  \/ SumDecide

SpecSum == InitSum /\ [][NextSum]_vars

(***************************************************************************)
(* paraphrase_text (parahrase.py): one call, from entry to return or raise *)
(***************************************************************************)

\* sub in s
Contains(s, sub) ==
  \E i \in 1..(Len(s) - Len(sub) + 1) : SubSeq(s, i, i + Len(sub) - 1) = sub

\* a mutant of clamp: the ceiling is not applied
clampFloorOnly(num, den, lo, hi) == Max(lo, num \div den)

\* clamp(v, lo, hi), v given as the fraction num / den it is computed from:
\* max(lo, min(hi, int(v)))
clamp(num, den, lo, hi) == Max(lo, Min(hi, num \div den))

\* original_word_count = max(1, len(text.split()))
OriginalWordCount(text) == Max(1, Len(Split(text)))

\* max_new for a length class: the word count times 1.0, 1.5 or 1.2, times 1.3
MaxNew(wc, length) ==
  IF length = "short" THEN clamp(wc * 13, 10, 32, 512)
  ELSE IF length = "long" THEN clamp(wc * 195, 100, 64, 768)
  ELSE clamp(wc * 156, 100, 48, 640)

\* min_new for a length class: the word count times 0.8, 1.2 or 1.0, times 1.3
MinNew(wc, length) ==
  IF length = "short" THEN clamp(wc * 104, 100, 24, 384)
  ELSE IF length = "long" THEN clamp(wc * 156, 100, 48, 512)
  ELSE clamp(wc * 13, 10, 32, 512)

\* the retry calls' max_new_tokens: int(max(original_word_count * 1.5, 64))
RetryMaxNew(wc) == Max((wc * 3) \div 2, 64)
\* a mutant of RetryMinNew: the word count times 1.6
RetryMinNewDoubled(wc) == Max((wc * 8) \div 5, 24)
\* the retry calls' min_new_tokens: int(max(original_word_count * 0.8, 24))
RetryMinNew(wc) == Max((wc * 4) \div 5, 24)

\* the prompt family of a model name, by the first substring that matches
\* at the initial prompt: "t5", "bart", "flan", else the default
InitialFamily(model_name_lower) ==
  IF Contains(model_name_lower, <<"t", "5">>) THEN "t5"
  ELSE IF Contains(model_name_lower, <<"b", "a", "r", "t">>) THEN "bart"
  ELSE IF Contains(model_name_lower, <<"f", "l", "a", "n">>) THEN "flan"
  ELSE "default"

\* a prompt: the instruction put before the text, and the text
Prompt(prefix, text) == [prefix |-> prefix, text |-> text]

\* a mutant of InitialPrompt: "flan" is looked for before "t5"
InitialPromptFlanFirst(model_name_lower, text) ==
  IF Contains(model_name_lower, <<"f", "l", "a", "n">>)
  THEN Prompt("Rewrite the following text in a different way but keep the same meaning: ", text)
  ELSE IF Contains(model_name_lower, <<"t", "5">>)
  THEN Prompt("paraphrase: ", text)
  ELSE IF Contains(model_name_lower, <<"b", "a", "r", "t">>)
  THEN Prompt("Paraphrase the following while keeping the original meaning: ", text)
  ELSE Prompt("", text)

\* the prompt of the two initial generations
InitialPrompt(model_name_lower, text) ==
  IF Contains(model_name_lower, <<"t", "5">>)
  THEN Prompt("paraphrase: ", text)
  ELSE IF Contains(model_name_lower, <<"b", "a", "r", "t">>)
  THEN Prompt("Paraphrase the following while keeping the original meaning: ", text)
  ELSE IF Contains(model_name_lower, <<"f", "l", "a", "n">>)
  THEN Prompt("Rewrite the following text in a different way but keep the same meaning: ", text)
  ELSE Prompt("", text)

\* alternative_prompt, of the two retry generations
RetryPrompt(model_name_lower, text) ==
  IF Contains(model_name_lower, <<"t", "5">>)
  THEN Prompt("paraphrase this completely: ", text)
  ELSE IF \/ Contains(model_name_lower, <<"b", "a", "r", "t">>)
          \/ Contains(model_name_lower, <<"f", "l", "a", "n">>)
  THEN Prompt("Provide a complete paraphrase of this text with similar length: ", text)
  ELSE Prompt("", text)

\* a mutant of HasFinalBranch: the BART branch is missing
HasFinalBranchT5Only(model_name_lower) ==
  Contains(model_name_lower, <<"t", "5">>)

\* whether the final correction has a branch for the model name
HasFinalBranch(model_name_lower) ==
  \/ Contains(model_name_lower, <<"t", "5">>)
  \/ Contains(model_name_lower, <<"b", "a", "r", "t">>)

\* final_prompt, of the regeneration of the second candidate
FinalPrompt(model_name_lower, text) ==
  IF Contains(model_name_lower, <<"t", "5">>)
  THEN Prompt("rewrite completely differently: ", text)
  ELSE Prompt("Completely rephrase the following with different words: ", text)

\* the keyword arguments of a paraphrase model.generate call; 0 stands for an
\* argument the call does not pass; temperature, penalties in hundredths,
\* top_p in thousandths
PKwargs(max_new, min_new, sample, temperature, top_p, beams, groups,
        diversity, lp, nrn, rp) ==
  [max_new_tokens |-> max_new, min_new_tokens |-> min_new,
   num_return_sequences |-> 1, do_sample |-> sample,
   temperature |-> temperature, top_p |-> top_p, num_beams |-> beams,
   num_beam_groups |-> groups, diversity_penalty |-> diversity,
   length_penalty |-> lp, no_repeat_ngram_size |-> nrn,
   repetition_penalty |-> rp, early_stopping |-> TRUE]

\* the arguments of the generation for a stage and a slot (candidate 1 or 2)
StageKwargs(stage, slot, model_name_lower, wc, length, creativity) ==
  LET max_new == MaxNew(wc, length)
      min_new == MinNew(wc, length)
  IN  CASE stage = "initial" /\ slot = 1 ->
             PKwargs(max_new, min_new, TRUE, 50 + creativity,
                     Min(990, 850 + creativity), 0, 0, 0, 100, 3, 120)
        [] stage = "initial" /\ slot = 2 ->
             PKwargs(max_new, min_new, FALSE, 0, 0, 4, 4, 100, 120, 2, 130)
        [] stage = "retry" /\ slot = 1 ->
             PKwargs(RetryMaxNew(wc), RetryMinNew(wc), TRUE, 90, 950, 0, 0, 0,
                     150, 2, 110)
        [] stage = "retry" /\ slot = 2 ->
             PKwargs(RetryMaxNew(wc), RetryMinNew(wc), FALSE, 0, 0, 4, 4, 100,
                     170, 3, 130)
        [] stage = "final" ->
             IF Contains(model_name_lower, <<"t", "5">>)
             THEN PKwargs(max_new, min_new, FALSE, 0, 0, 5, 5, 150, 0, 2, 0)
             ELSE PKwargs(max_new, min_new, FALSE, 0, 0, 5, 5, 150, 100, 0, 0)

\* set(p.lower().split())
WordSet(p) == ToSet(Split(Lower(p)))

\* not any(p.strip() for p in paraphrased_texts)
AllBlank(texts) == \A i \in DOMAIN texts : Strip(texts[i]) = <<>>

\* a mutant of AllTooShort: one short candidate is enough
AnyTooShort(texts, original_token_count) ==
  \E i \in DOMAIN texts : 10 * Len(Split(texts[i])) < 7 * original_token_count

\* all(len(p.split()) < original_token_count * 0.7 for p in paraphrased_texts)
AllTooShort(texts, original_token_count) ==
  \A i \in DOMAIN texts : 10 * Len(Split(texts[i])) < 7 * original_token_count

\* a mutant of SiblingsShareWords: the share is taken of the smaller set
SiblingsShareWordsOfSmaller(texts) ==
  /\ Len(texts) >= 2
  /\ LET words1 == WordSet(texts[1])
         words2 == WordSet(texts[2])
         common_words == words1 \cap words2
     IN  /\ Cardinality(words1) > 0
         /\ 5 * Cardinality(common_words)
              > 4 * Min(Cardinality(words1), Cardinality(words2))

\* the first sibling check: more than 80% of the first candidate's words are
\* words of the second
SiblingsShareWords(texts) ==
  /\ Len(texts) >= 2
  /\ LET words1 == WordSet(texts[1])
         words2 == WordSet(texts[2])
         common_words == words1 \cap words2
     IN  /\ Cardinality(words1) > 0
         /\ 5 * Cardinality(common_words) > 4 * Cardinality(words1)

\* the retry flag computed from the initial pair
NeedsRetry(texts, text) ==
  IF AllBlank(texts) THEN TRUE
  ELSE AllTooShort(texts, Len(Split(text))) \/ SiblingsShareWords(texts)

\* the additional diversity check: the candidates share more than 75% of the
\* words of the smaller one
StillTooSimilar(texts) ==
  /\ Len(texts) >= 2
  /\ LET words1 == WordSet(texts[1])
         words2 == WordSet(texts[2])
         common_words == words1 \cap words2
     IN  /\ Cardinality(words1) > 0
         /\ Cardinality(words2) > 0
         /\ 4 * Cardinality(common_words)
              > 3 * Min(Cardinality(words1), Cardinality(words2))

\* a mutant of Combine: only the first output is kept
CombineFirst(o1, o2) == <<o1>>

\* paraphrased_texts = [decode(g) for g in [output_ids_1[0], output_ids_2[0]]]
Combine(o1, o2) == <<o1, o2>>

\* a mutant of ReplaceSecond: the first candidate is overwritten
ReplaceFirst(texts, new) == [texts EXCEPT ![1] = new]

\* paraphrased_texts[1] = decode(alt_output_ids[0])
ReplaceSecond(texts, new) == [texts EXCEPT ![2] = new]

\* a mutant of AfterPair: the retried pair is checked again, as in a loop
AfterPairLoop(stage, texts, text, model_name_lower) ==
  IF NeedsRetry(texts, text) THEN "retry1"
  ELSE IF StillTooSimilar(texts) /\ HasFinalBranch(model_name_lower) THEN "final"
  ELSE "done"

\* where the call goes once a pair of candidates is decoded: the initial pair
\* is retried once if the retry flag is set; a settled pair goes to the final
\* correction if it is still too similar and the model has a branch for it
AfterPair(stage, texts, text, model_name_lower) ==
  IF stage = "initial" /\ NeedsRetry(texts, text) THEN "retry1"
  ELSE IF StillTooSimilar(texts) /\ HasFinalBranch(model_name_lower) THEN "final"
  ELSE "done"

Creativities == {30}

ParaWordSeqs == SeqsUpTo({<<"a">>}, MaxParaWords) \ {<<>>}
\* the texts paraphrase_text is called with
ParaTexts ==
  {<<>>, <<" ">>}
    \cup {Join(ws, <<" ">>) : ws \in ParaWordSeqs}
    \cup {<<" ">> \o Join(ws, <<" ">>) \o <<" ">> : ws \in ParaWordSeqs}

ParaGenWordSeqs == SeqsUpTo({<<"a">>, <<"b">>}, MaxParaGenWords) \ {<<>>}
\* what tokenizer.decode can return for a generation: nothing, white space,
\* up to MaxParaGenWords words, and "a b", which shares a word with "a" and
\* with "b" without being equal to either
ParaOutputs ==
  {<<>>, <<" ">>, <<"a", " ", "b">>}
    \cup {Join(ws, <<" ">>) : ws \in ParaGenWordSeqs}

InitPara ==
  /\ GIdle /\ SIdle /\ TIdle /\ OIdle
  /\ sum_loaded = EmptyCache /\ ft_loaded = EmptyCache
  /\ p_pc = "entry"
  /\ transformers_ok \in BOOLEAN
  /\ p_text \in ParaTexts
  /\ p_model_name \in ParaModelNames
  /\ p_creativity \in Creativities
  /\ p_length \in LengthClasses
  /\ p_out1 = <<>> /\ p_texts = <<>> /\ p_settled = <<>> /\ p_calls = <<>>
  /\ p_result = NoResult
  \* an earlier call has loaded the model, or none has
  /\ \E warm \in BOOLEAN :
       /\ paraphrasing_pipelines =
            IF warm THEN CachePut(EmptyCache, p_model_name, Handle(p_model_name, 1))
            ELSE EmptyCache
       /\ n_loads = [id \in LoadIds |->
            IF warm /\ id = <<"paraphrase", p_model_name>> THEN 1 ELSE 0]

pframe == <<transformers_ok, p_model_name, p_creativity, p_length>>

\* the call ends by raising
ParaRaise(e) ==
  /\ p_result' = Raise(e)
  /\ p_pc' = "done"

\* a mutant of ParaEntry: the text is stripped but not checked
ParaEntryUnchecked ==
  /\ p_pc = "entry"
  /\ IF ~transformers_ok
     THEN /\ ParaRaise("ValueError: transformers not available")
          /\ UNCHANGED p_text
     ELSE /\ p_text' = Strip(p_text)
          /\ p_pc' = "load" /\ UNCHANGED p_result
  /\ UNCHANGED <<pframe, p_out1, p_texts, p_settled, p_calls>>
  /\ UNCHANGED <<gvars, cvars, svars, tvars, ovars>>

\* the checks before any model is touched: transformers imported, and
\* text = (text or "").strip() non-empty
ParaEntry ==
  /\ p_pc = "entry"
  /\ IF ~transformers_ok
     THEN /\ ParaRaise("ValueError: transformers not available")
          /\ UNCHANGED p_text
     ELSE /\ p_text' = Strip(p_text)
          /\ IF Strip(p_text) = <<>>
             THEN ParaRaise("ValueError: text must be non-empty")
             ELSE p_pc' = "load" /\ UNCHANGED p_result
  /\ UNCHANGED <<pframe, p_out1, p_texts, p_settled, p_calls>>
  /\ UNCHANGED <<gvars, cvars, svars, tvars, ovars>>

\* the lazy load of the model and tokenizer, run by one thread alone
ParaLoad ==
  /\ p_pc = "load"
  /\ \/ /\ p_model_name \in DOMAIN paraphrasing_pipelines
        /\ p_pc' = "gen1"
        /\ UNCHANGED <<p_result, cvars>>
     \/ /\ p_model_name \notin DOMAIN paraphrasing_pipelines
        /\ LET n == n_loads[<<"paraphrase", p_model_name>>] + 1
           IN  /\ paraphrasing_pipelines' =
                    CachePut(paraphrasing_pipelines, p_model_name,
                             Handle(p_model_name, n))
               /\ n_loads' = [n_loads EXCEPT ![<<"paraphrase", p_model_name>>] = n]
        /\ p_pc' = "gen1"
        /\ UNCHANGED <<p_result, sum_loaded, ft_loaded>>
     \/ \* from_pretrained raises
        /\ p_model_name \notin DOMAIN paraphrasing_pipelines
        /\ ParaRaise("ValueError: Failed to load model")
        /\ UNCHANGED cvars
  /\ UNCHANGED <<pframe, p_text, p_out1, p_texts, p_settled, p_calls>>
  /\ UNCHANGED <<gvars, svars, tvars, ovars>>

\* one model.generate call, as the log keeps it
PCall(stage, slot) ==
  [stage |-> stage, slot |-> slot,
   prompt |-> CASE stage = "initial" -> InitialPrompt(Lower(p_model_name), p_text)
                [] stage = "retry" -> RetryPrompt(Lower(p_model_name), p_text)
                [] stage = "final" -> FinalPrompt(Lower(p_model_name), p_text),
   kwargs |-> StageKwargs(stage, slot, Lower(p_model_name),
                          OriginalWordCount(p_text), p_length, p_creativity)]

\* a mutant of ParaGenFails: a failure of an initial generation is answered
\* by the retry
ParaGenFailsThenRetries(stage, slot) ==
  /\ p_calls' = Append(p_calls, PCall(stage, slot))
  /\ IF stage = "initial"
     THEN p_pc' = "retry1" /\ UNCHANGED p_result
     ELSE ParaRaise("ValueError: Failed to generate paraphrase")
  /\ UNCHANGED <<pframe, p_text, p_out1, p_texts, p_settled>>

\* model.generate raises: the except clause turns it into a ValueError
ParaGenFails(stage, slot) ==
  /\ p_calls' = Append(p_calls, PCall(stage, slot))
  /\ ParaRaise("ValueError: Failed to generate paraphrase")
  /\ UNCHANGED <<pframe, p_text, p_out1, p_texts, p_settled>>

\* the first generation of a pair: output_ids_1, by sampling
ParaGenFirst ==
  /\ p_pc \in {"gen1", "retry1"}
  /\ LET stage == IF p_pc = "gen1" THEN "initial" ELSE "retry"
     IN  \/ \E decoded \in ParaOutputs :
              /\ p_calls' = Append(p_calls, PCall(stage, 1))
              /\ p_out1' = decoded
              /\ p_pc' = IF p_pc = "gen1" THEN "gen2" ELSE "retry2"
              /\ UNCHANGED <<pframe, p_text, p_texts, p_settled, p_result>>
         \/ ParaGenFails(stage, 1)
  /\ UNCHANGED <<gvars, cvars, svars, tvars, ovars>>

\* the second generation of a pair: output_ids_2, by diverse beam search;
\* then the pair is decoded and the call decides where to go
ParaGenSecond ==
  /\ p_pc \in {"gen2", "retry2"}
  /\ LET stage == IF p_pc = "gen2" THEN "initial" ELSE "retry"
     IN  \/ \E decoded \in ParaOutputs :
              LET texts == Combine(p_out1, decoded)
                  next == AfterPair(stage, texts, p_text, Lower(p_model_name))
              IN  /\ p_calls' = Append(p_calls, PCall(stage, 2))
                  /\ p_texts' = texts
                  /\ p_pc' = next
                  /\ p_settled' = IF next = "retry1" THEN p_settled ELSE texts
                  /\ p_result' = IF next = "done" THEN Return(texts) ELSE p_result
                  /\ UNCHANGED <<pframe, p_text, p_out1>>
         \/ ParaGenFails(stage, 2)
  /\ UNCHANGED <<gvars, cvars, svars, tvars, ovars>>

\* the final correction: the second candidate is generated once more
ParaGenFinal ==
  /\ p_pc = "final"
  /\ \/ \E decoded \in ParaOutputs :
          /\ p_calls' = Append(p_calls, PCall("final", 2))
          /\ p_texts' = ReplaceSecond(p_texts, decoded)
          /\ p_result' = Return(ReplaceSecond(p_texts, decoded))
          /\ p_pc' = "done"
          /\ UNCHANGED <<pframe, p_text, p_out1, p_settled>>
     \/ ParaGenFails("final", 2)
  /\ UNCHANGED <<gvars, cvars, svars, tvars, ovars>>

NextPara ==
  \/ ParaEntry
  \/ ParaLoad
  \/ ParaGenFirst
  \/ ParaGenSecond
  \/ ParaGenFinal

SpecPara == InitPara /\ [][NextPara]_vars

(***************************************************************************)
(* One request, of either kind: a summarize call or a paraphrase call.     *)
(***************************************************************************)
InitRequest == InitSum \/ InitPara

NextRequest == NextSum \/ NextPara

SpecRequest == InitRequest /\ [][NextRequest]_vars

(***************************************************************************)
(* The model caches under concurrent requests: main.py runs the summarize  *)
(* calls with run_in_threadpool and the paraphrase endpoint is a plain def,*)
(* which FastAPI runs in its thread pool too; no lock guards the caches.   *)
(***************************************************************************)
\* the contents of cache c
CacheState(c) ==
  CASE c = "summarizer" -> sum_loaded
    [] c = "fine_tuned" -> ft_loaded
    [] c = "paraphrase" -> paraphrasing_pipelines

\* the calls the worker threads make: function and model argument
CacheRequests ==
  {<<"summarize_text", N_pegasus>>, <<"summarize_text", N_bart>>,
   <<"summarize_text", N_gpt2>>,
   <<"summarize_text_with_model", N_BART>>,
   <<"summarize_text_with_model", N_gpt2>>,
   <<"paraphrase_text", HF_pegasus>>}

NoRequest == <<"", <<>>>>

\* the cache and the key of thread t's call
ReqCache(t) == CacheOf(t_req[t][1])
ReqKey(t) == KeyOf(t_req[t][1], t_req[t][2])

InitCache ==
  /\ GIdle /\ CIdle /\ SIdle /\ PIdle /\ TIdle /\ OIdle

\* thread t's call ends, by returning or by raising
ThreadEnds(t) ==
  /\ t_pc' = [t_pc EXCEPT ![t] = "idle"]
  /\ t_req' = [t_req EXCEPT ![t] = NoRequest]
  /\ t_local' = [t_local EXCEPT ![t] = NoHandle]
  /\ t_handle' = [t_handle EXCEPT ![t] = NoHandle]

\* thread t's call raises: the exception leaves the function with its locals
ThreadRaises(t) ==
  /\ t_pc' = [t_pc EXCEPT ![t] = "failed"]
  /\ UNCHANGED <<t_req, t_local, t_handle>>

\* the tuple under construction: its tokenizer is loaded, its model is not
PartlyLoaded(key) == [key |-> key, serial |-> 0]

\* a worker thread starts a call
Request(t) ==
  /\ t_pc[t] = "idle"
  /\ \E r \in CacheRequests : t_req' = [t_req EXCEPT ![t] = r]
  /\ t_pc' = [t_pc EXCEPT ![t] = "check"]
  /\ UNCHANGED <<t_local, t_handle>>
  /\ UNCHANGED <<gvars, cvars, svars, pvars, ovars>>

\* the checks before the load: the key is valid, the key is cached
CacheCheck(t) ==
  /\ t_pc[t] = "check"
  /\ LET c == ReqCache(t)
         key == ReqKey(t)
     IN  \/ \* load_model: if model_key not in MODELS: raise ValueError
            /\ c = "summarizer"
            /\ key \notin DOMAIN MODELS
            /\ ThreadRaises(t)
         \/ \* if key in _loaded: return _loaded[key]
            /\ c # "paraphrase"
            /\ c = "summarizer" => key \in DOMAIN MODELS
            /\ key \in DOMAIN CacheState(c)
            /\ t_handle' = [t_handle EXCEPT ![t] = CacheState(c)[key]]
            /\ t_pc' = [t_pc EXCEPT ![t] = "use"]
            /\ UNCHANGED <<t_req, t_local>>
         \/ \* if model_name not in paraphrasing_pipelines: skipped
            /\ c = "paraphrase"
            /\ key \in DOMAIN CacheState(c)
            /\ t_pc' = [t_pc EXCEPT ![t] = "read"]
            /\ UNCHANGED <<t_req, t_local, t_handle>>
         \/ \* _load_model: the choice is neither 't5' nor 'bart'
            /\ c = "fine_tuned"
            /\ key \notin DOMAIN CacheState(c)
            /\ key \notin {N_t5, N_bart}
            /\ ThreadRaises(t)
         \/ \* _load_model: the model directory is missing
            /\ c = "fine_tuned"
            /\ key \notin DOMAIN CacheState(c)
            /\ key \in {N_t5, N_bart}
            /\ ThreadRaises(t)
         \/ \* a miss: the thread goes on to load
            /\ c = "summarizer" => key \in DOMAIN MODELS
            /\ c = "fine_tuned" => key \in {N_t5, N_bart}
            /\ key \notin DOMAIN CacheState(c)
            /\ t_pc' = [t_pc EXCEPT ![t] = "loading"]
            /\ UNCHANGED <<t_req, t_local, t_handle>>
  /\ UNCHANGED <<gvars, cvars, svars, pvars, ovars>>

\* a mutant of CacheLoadTokenizer: the tuple is put in the cache as soon as
\* its tokenizer is there
CacheLoadTokenizerPublishes(t) ==
  /\ t_pc[t] = "loading"
  /\ LET c == ReqCache(t)
         key == ReqKey(t)
     IN  /\ sum_loaded' =
              IF c = "summarizer" THEN CachePut(sum_loaded, key, PartlyLoaded(key))
              ELSE sum_loaded
         /\ ft_loaded' =
              IF c = "fine_tuned" THEN CachePut(ft_loaded, key, PartlyLoaded(key))
              ELSE ft_loaded
         /\ paraphrasing_pipelines' =
              IF c = "paraphrase"
              THEN CachePut(paraphrasing_pipelines, key, PartlyLoaded(key))
              ELSE paraphrasing_pipelines
         /\ t_local' = [t_local EXCEPT ![t] = PartlyLoaded(key)]
  /\ t_pc' = [t_pc EXCEPT ![t] = "loading_model"]
  /\ UNCHANGED <<n_loads, t_req, t_handle>>
  /\ UNCHANGED <<gvars, svars, pvars, ovars>>

\* tokenizer = AutoTokenizer.from_pretrained(...) returns, or raises
CacheLoadTokenizer(t) ==
  /\ t_pc[t] = "loading"
  /\ \/ /\ t_local' = [t_local EXCEPT ![t] = PartlyLoaded(ReqKey(t))]
        /\ t_pc' = [t_pc EXCEPT ![t] = "loading_model"]
        /\ UNCHANGED <<t_req, t_handle>>
     \/ ThreadRaises(t)
  /\ UNCHANGED <<gvars, cvars, svars, pvars, ovars>>

\* model = AutoModelForSeq2SeqLM.from_pretrained(...) (and model.to(device))
\* return, or raise
CacheLoadModel(t) ==
  /\ t_pc[t] = "loading_model"
  /\ \/ LET id == <<ReqCache(t), ReqKey(t)>>
            n == n_loads[id] + 1
        IN  /\ n_loads' = [n_loads EXCEPT ![id] = n]
            /\ t_local' = [t_local EXCEPT ![t] = Handle(ReqKey(t), n)]
            /\ t_pc' = [t_pc EXCEPT ![t] = "store"]
            /\ UNCHANGED <<t_req, t_handle>>
            /\ UNCHANGED <<sum_loaded, ft_loaded, paraphrasing_pipelines>>
     \/ /\ ThreadRaises(t)
        /\ UNCHANGED cvars
  /\ UNCHANGED <<gvars, svars, pvars, ovars>>

\* cache[key] = the tuple just loaded; load_model and _load_model return
\* that tuple, paraphrase_text goes on to read the cache
CacheStore(t) ==
  /\ t_pc[t] = "store"
  /\ LET c == ReqCache(t)
         key == ReqKey(t)
     IN  /\ sum_loaded' =
              IF c = "summarizer" THEN CachePut(sum_loaded, key, t_local[t])
              ELSE sum_loaded
         /\ ft_loaded' =
              IF c = "fine_tuned" THEN CachePut(ft_loaded, key, t_local[t])
              ELSE ft_loaded
         /\ paraphrasing_pipelines' =
              IF c = "paraphrase"
              THEN CachePut(paraphrasing_pipelines, key, t_local[t])
              ELSE paraphrasing_pipelines
         /\ IF c = "paraphrase"
            THEN /\ t_pc' = [t_pc EXCEPT ![t] = "read"]
                 /\ UNCHANGED t_handle
            ELSE /\ t_pc' = [t_pc EXCEPT ![t] = "use"]
                 /\ t_handle' = [t_handle EXCEPT ![t] = t_local[t]]
  /\ UNCHANGED <<n_loads, t_req, t_local>>
  /\ UNCHANGED <<gvars, svars, pvars, ovars>>

\* model, tokenizer = paraphrasing_pipelines[model_name]
CacheRead(t) ==
  /\ t_pc[t] = "read"
  /\ t_handle' = [t_handle EXCEPT ![t] = paraphrasing_pipelines[ReqKey(t)]]
  /\ t_pc' = [t_pc EXCEPT ![t] = "use"]
  /\ UNCHANGED <<t_req, t_local>>
  /\ UNCHANGED <<gvars, cvars, svars, pvars, ovars>>

\* the call generates with its handle and ends
CacheUse(t) ==
  /\ t_pc[t] = "use"
  /\ ThreadEnds(t)
  /\ UNCHANGED <<gvars, cvars, svars, pvars, ovars>>

\* the exception has reached the endpoint: the call is over
CacheFailed(t) ==
  /\ t_pc[t] = "failed"
  /\ ThreadEnds(t)
  /\ UNCHANGED <<gvars, cvars, svars, pvars, ovars>>

ThreadRequests == \E t \in Threads : Request(t)
ThreadChecks == \E t \in Threads : CacheCheck(t)
ThreadLoadsTokenizer == \E t \in Threads : CacheLoadTokenizer(t)
ThreadLoadsModel == \E t \in Threads : CacheLoadModel(t)
ThreadStores == \E t \in Threads : CacheStore(t)
ThreadReads == \E t \in Threads : CacheRead(t)
ThreadUses == \E t \in Threads : CacheUse(t)
ThreadFails == \E t \in Threads : CacheFailed(t)

NextCache ==
  \/ ThreadRequests
  \/ ThreadChecks
  \/ ThreadLoadsTokenizer
  \/ ThreadLoadsModel
  \/ ThreadStores
  \/ ThreadReads
  \/ ThreadUses
  \/ ThreadFails

SpecCache == InitCache /\ [][NextCache]_vars

(***************************************************************************)
(* POST /evaluate/metrics (main.py evaluate_metrics) over                  *)
(* calculate_all_metrics.  A text is a sequence of characters; an optional *)
(* value is a sequence of length 0 (None) or 1.                            *)
(***************************************************************************)
MetricTexts == {<<>>, <<" ">>, <<"a">>, <<" ", "a">>, <<"a", " ", "b">>}

Optional(S) == {<<>>} \cup {<<x>> : x \in S}

\* the orders n the perplexity estimate may be configured with
NgramOrders == 1..3

\* a metric's dict: its scores, or the marker {"error": ...} in their place
Metric(available) == [error |-> IF available THEN "" ELSE "unavailable"]

\* bleu: unavailable when either text tokenizes to zero words
Bleu(reference, candidate) ==
  Metric(Split(reference) # <<>> /\ Split(candidate) # <<>>)

\* perplexity: unavailable when the text has fewer tokens than n
Perplexity(text, n) == Metric(Len(Split(text)) >= n)

\* readability: unavailable when the text is empty
Readability(text) == Metric(Split(text) # <<>>)

\* readability_delta: the elementwise difference of two readability outputs
ReadabilityDelta(a, b) ==
  Metric(Readability(a).error = "" /\ Readability(b).error = "")

\* calculate_all_metrics(reference, candidate, original): total, every metric
\* that cannot be computed is a marker inside the report
CalculateAllMetrics(reference, candidate, original, n) ==
  [bleu |-> Bleu(reference, candidate),
   perplexity |-> Perplexity(candidate, n),
   perplexity_candidate |-> <<Perplexity(candidate, n)>>,
   perplexity_reference |-> <<Perplexity(reference, n)>>,
   readability |-> IF original = <<>> THEN <<>>
                   ELSE <<ReadabilityDelta(original[1], candidate)>>,
   readability_ref_candidate |-> <<ReadabilityDelta(reference, candidate)>>]

\* payload.original_text.strip() if payload.original_text else None
StripOriginal(original_text) ==
  IF original_text = <<>> \/ original_text[1] = <<>> THEN <<>>
  ELSE <<Strip(original_text[1])>>

\* if not ref or not cand
RejectsBlankBoth(ref, cand) == ref = <<>> /\ cand = <<>>

RejectsBlank(ref, cand) == ref = <<>> \/ cand = <<>>

InitMetrics ==
  /\ m_pc = "start"
  /\ m_payload \in [reference : MetricTexts, candidate : MetricTexts,
                    original_text : Optional(MetricTexts)]
  /\ m_called = <<>>
  /\ m_response = NoResponse
  /\ GIdle /\ CIdle /\ SIdle /\ PIdle /\ TIdle /\ RIdle /\ XIdle

\* the strip of both texts and the check of the two; the check raises
\* HTTPException(422) inside the handler's try block
MetricsCheck ==
  /\ m_pc = "start"
  /\ m_pc' = IF RejectsBlank(Strip(m_payload.reference),
                             Strip(m_payload.candidate))
             THEN "raised" ELSE "calculate"
  /\ UNCHANGED <<m_payload, m_called, m_response, core, rvars, xvars>>

\* results = calculate_all_metrics(ref, cand, original); return results
MetricsCalculate ==
  /\ m_pc = "calculate"
  /\ \E n \in NgramOrders :
       LET ref == Strip(m_payload.reference)
           cand == Strip(m_payload.candidate)
           original == StripOriginal(m_payload.original_text)
       IN /\ m_called' = Append(m_called, [reference |-> ref,
                                            candidate |-> cand,
                                            original |-> original])
          /\ m_response' =
               [status |-> 200,
                body |-> <<CalculateAllMetrics(ref, cand, original, n)>>]
  /\ m_pc' = "done"
  /\ UNCHANGED <<m_payload, core, rvars, xvars>>

\* except Exception as e: raise HTTPException(status_code=500, ...); the
\* HTTPException of the check is an Exception and is caught here as well
MetricsExcept ==
  /\ m_pc = "raised"
  /\ m_response' = [status |-> 500, body |-> <<>>]
  /\ m_pc' = "done"
  /\ UNCHANGED <<m_payload, m_called, core, rvars, xvars>>

NextMetrics == MetricsCheck \/ MetricsCalculate \/ MetricsExcept

SpecMetrics == InitMetrics /\ [][NextMetrics]_vars

(***************************************************************************)
(* Password reset: POST /forgot-password and POST /reset-password          *)
(* (main.py) over crud.create_password_reset and crud.reset_password.      *)
(* Each call is one database transaction; the calls are served one after   *)
(* another.  Time is in minutes.                                           *)
(***************************************************************************)
MaxResets == 2
MaxNow == 16
\* the most words of a text whose generation bounds are computed
MaxBoundsWords == 650
MinutesValid == 15

Emails == {"ann", "bob"}
Passwords == {"p1", "p2"}
\* the values secrets.token_urlsafe can return
TokenValues == {"t1", "t2", "t3"}
\* the blank token create_password_reset returns for an unknown email
NoToken == ""

\* get_password_hash: the stored hash of a password
Hash(password) == <<"bcrypt", password>>

\* db.query(...).filter(...).first() over a table: the place of the first row
\* that matches, 0 when there is none
First(rows, Matches(_)) ==
  IF \E i \in DOMAIN rows : Matches(rows[i])
  THEN CHOOSE i \in DOMAIN rows :
         Matches(rows[i]) /\ \A j \in 1..(i - 1) : ~Matches(rows[j])
  ELSE 0

UserByEmail(us, email) == LET M(u) == u.email = email IN First(us, M)
UserById(us, id) == LET M(u) == u.id = id IN First(us, M)
ResetByToken(rs, token) == LET M(pr) == pr.token = token IN First(rs, M)

\* the tokens of the rows of password_resets
IssuedTokens(rs) == {rs[i].token : i \in DOMAIN rs}

\* crud.create_user
CreateUser(us, email, password) ==
  Append(us, [id |-> Len(us) + 1, email |-> email, password |-> Hash(password)])

\* crud.create_password_reset(db, email) when token_urlsafe returns token:
\* the token and row it returns (row 0: None) and the table afterwards
CreatePasswordReset(us, rs, t_now, email, token) ==
  LET u == UserByEmail(us, email)
  IN  IF u = 0 THEN [token |-> NoToken, pr |-> 0, resets |-> rs]
      ELSE [token |-> token, pr |-> Len(rs) + 1,
            resets |-> Append(rs, [user_id |-> us[u].id, token |-> token,
                                   expires_at |-> t_now + MinutesValid,
                                   used |-> FALSE])]

\* a mutant of TokenSpent: a used token is not turned away
TokenSpentNever(pr) == FALSE

\* pr.used
TokenSpent(pr) == pr.used

\* crud.reset_password(db, token, new_password): its result and the tables
\* afterwards
ResetPassword(us, rs, t_now, token, new_password) ==
  LET i == ResetByToken(rs, token)
      failed == [ok |-> FALSE, users |-> us, resets |-> rs]
  IN  IF i = 0 \/ TokenSpent(rs[i]) THEN failed
      ELSE IF rs[i].expires_at < t_now THEN failed
      ELSE LET u == UserById(us, rs[i].user_id)
           IN  IF u = 0 THEN failed
               ELSE [ok |-> TRUE,
                     users |-> [us EXCEPT ![u].password = Hash(new_password)],
                     resets |-> [rs EXCEPT ![i].used = TRUE]]

GenericMessage == "If the email exists, a reset link has been sent."

\* a mutant of ForgotMessage: the body tells whether a token was made
ForgotMessageHint(token) ==
  IF token = NoToken THEN <<"No account with this email.">>
  ELSE <<GenericMessage, token>>

\* the body forgot_password returns, as the strings it is put together from
ForgotMessage(token) == <<GenericMessage>>

\* forgot_password(payload) when token_urlsafe returns token: the table
\* afterwards, the e-mails handed to the background tasks and the response
ForgotPassword(us, rs, t_now, email, token) ==
  LET r == CreatePasswordReset(us, rs, t_now, email, token)
  IN  [resets |-> r.resets,
       mails |-> IF r.pr # 0 /\ r.token # NoToken
                 THEN <<[to |-> email, token |-> r.token]>> ELSE <<>>,
       response |-> [status |-> 200, body |-> ForgotMessage(r.token)]]

InitReset ==
  /\ users = <<>> /\ resets = <<>> /\ now = 0 /\ outbox = <<>>
  /\ r_last = NoCall
  /\ r_success = [t \in TokenValues |-> 0]
  /\ GIdle /\ CIdle /\ SIdle /\ PIdle /\ TIdle /\ MIdle /\ XIdle

\* a new user registers (crud.create_user; the e-mail column is unique)
Register ==
  /\ \E email \in Emails, password \in Passwords :
       /\ UserByEmail(users, email) = 0
       /\ users' = CreateUser(users, email, password)
       /\ r_last' = [op |-> "register", arg |-> <<email>>,
                     response |-> [status |-> 200, body |-> <<>>]]
  /\ UNCHANGED <<resets, now, outbox, r_success, core, mvars, xvars>>

\* POST /forgot-password
Forgot ==
  /\ \E email \in Emails, token \in TokenValues \ IssuedTokens(resets) :
       LET r == ForgotPassword(users, resets, now, email, token)
       IN  /\ Len(r.resets) <= MaxResets
           /\ resets' = r.resets
           /\ outbox' = outbox \o r.mails
           /\ r_last' = [op |-> "forgot", arg |-> <<email>>,
                         response |-> r.response]
  /\ UNCHANGED <<users, now, r_success, core, mvars, xvars>>

\* POST /reset-password
Reset ==
  /\ \E token \in TokenValues, new_password \in Passwords :
       LET r == ResetPassword(users, resets, now, token, new_password)
       IN  /\ users' = r.users
           /\ resets' = r.resets
           /\ r_success' = IF r.ok
                           THEN [r_success EXCEPT ![token] = r_success[token] + 1]
                           ELSE r_success
           /\ r_last' = [op |-> "reset", arg |-> <<token, new_password>>,
                         response |-> IF r.ok
                                      THEN [status |-> 200, body |-> <<>>]
                                      ELSE [status |-> 400, body |-> <<>>]]
  /\ UNCHANGED <<now, outbox, core, mvars, xvars>>

\* time passes: up to the last minute of a token made now, or past it
TickSteps == {MinutesValid, MinutesValid + 1}

Tick ==
  /\ \E d \in TickSteps :
       /\ now + d <= MaxNow
       /\ now' = now + d
  /\ UNCHANGED <<users, resets, outbox, r_last, r_success, core, mvars, xvars>>

NextReset == Register \/ Forgot \/ Reset \/ Tick

SpecReset == InitReset /\ [][NextReset]_vars

(***************************************************************************)
(* Claims                                                                  *)
(***************************************************************************)

\* C1: once the chunker has returned, joining the yielded chunks by a space
\* and splitting the result on whitespace gives text.split(): no word lost,
\* duplicated or reordered at a chunk boundary.
C1_ChunksReconstructWords ==
  g_pc = "done" => Split(Join(g_out, <<" ">>)) = Split(g_text)

\* a text of several words cut into more than one chunk, the last one short
C1_Witness ==
  /\ g_pc = "done"
  /\ Len(g_out) >= 2
  /\ Len(Split(g_text)) = 3
  /\ g_k = 2

(***************************************************************************)
(* What the summarize claims speak of                                      *)
(***************************************************************************)
\* the number of chunks the text of the call splits into
SumChunkCount == (Len(Split(s_text)) + SumMaxWords - 1) \div SumMaxWords

\* the call returned (it did not raise)
SumReturned == s_pc = "done" /\ s_result.kind = "return"

\* the call runs the fine-tuned BART, the one model whose passes may retry
SumIsBart == s_fn = "summarize_text_with_model" /\ Lower(s_model) = N_bart

\* the places in the log of the generation calls of the final (reduce) pass
ReduceCalls == {i \in DOMAIN s_calls : s_calls[i].phase = "reduce"}
\* the places in the log of the per-chunk generation calls
ChunkCalls == {i \in DOMAIN s_calls : s_calls[i].phase = "chunk"}

RECURSIVE PassResults(_)
\* the result of each pass of a log: the stripped output of its last call
PassResults(calls) ==
  IF calls = <<>> THEN <<>>
  ELSE LET rest == Tail(calls)
           last == rest = <<>> \/ Head(rest).attempt = 1
                     \/ Head(rest).phase # Head(calls).phase
       IN  IF last THEN <<Head(calls).out>> \o PassResults(rest)
           ELSE PassResults(rest)

\* C2 as the spec states it: a text of one chunk is summarized by exactly one
\* generation call, whose output is returned.
C2_Original ==
  (SumReturned /\ SumChunkCount = 1)
    => /\ Len(s_calls) = 1
       /\ s_result.value = s_calls[1].out

\* C2: a text of one chunk never gets a reduce pass: every generation call is
\* a per-chunk call over the one chunk; summarize_text and the fine-tuned T5
\* issue exactly one, the fine-tuned BART issues a second, stricter one exactly
\* when the first output is judged too similar to the chunk; the stripped
\* output of the last call is returned.
C2_SingleChunkNoReduce ==
  (SumReturned /\ SumChunkCount = 1)
    => LET n == Len(s_calls)
       IN  /\ n \in {1, 2}
           /\ \A i \in 1..n :
                /\ s_calls[i].phase = "chunk"
                /\ s_calls[i].attempt = i
                /\ s_calls[i].prompt = Join(Split(s_text), <<" ">>)
           /\ n = 2 <=> (SumIsBart /\ TooSimilar(s_calls[1].prompt, s_calls[1].out))
           /\ s_calls[n].out = Strip(s_decoded)
           /\ s_result.value = Strip(s_decoded)

\* the fine-tuned BART returned after retrying on its one chunk
C2_Witness ==
  /\ SumReturned /\ SumChunkCount = 1
  /\ SumIsBart
  /\ Len(s_calls) = 2

\* C3 as the spec states it: a text of N > 1 chunks gets N per-chunk calls and
\* then exactly one reduce call over their outputs joined by spaces, whose
\* stripped output is returned.
C3_Original ==
  (SumReturned /\ SumChunkCount > 1)
    => /\ Cardinality(ReduceCalls) = 1
       /\ Cardinality(ChunkCalls) = SumChunkCount
       /\ \A i \in ReduceCalls :
            /\ \A j \in ChunkCalls : j < i
            /\ s_calls[i].prompt =
                 Join([j \in 1..SumChunkCount |-> s_calls[j].out], <<" ">>)
            /\ s_result.value = s_calls[i].out

\* C3: a generation call of the reduce pass is issued only for a text of
\* N > 1 chunks, after every per-chunk pass has returned, and its prompt is
\* the N stripped per-chunk results joined by single spaces in chunk order;
\* the reduce pass is one call, followed for the fine-tuned BART by one
\* stricter call over the same prompt exactly when the first output is judged
\* too similar to it; a call that returns for N > 1 chunks returns the
\* stripped output of the last call of the reduce pass.
C3_ReduceAfterAllChunks ==
  /\ \A i \in ReduceCalls :
       /\ SumChunkCount > 1
       /\ Len(s_summaries) = SumChunkCount
       /\ PassResults(SubSeq(s_calls, 1, SetMin(ReduceCalls) - 1)) = s_summaries
       /\ \A j \in ChunkCalls : j < i
       /\ s_calls[i].prompt = Join(s_summaries, <<" ">>)
       /\ s_calls[i].attempt = i - SetMin(ReduceCalls) + 1
  /\ Cardinality(ReduceCalls) <= 2
  /\ \A i \in ReduceCalls :
       s_calls[i].attempt = 2
         => SumIsBart /\ TooSimilar(s_calls[i - 1].prompt, s_calls[i - 1].out)
  /\ (SumReturned /\ SumChunkCount > 1)
       => /\ Len(s_calls) \in ReduceCalls
          /\ Cardinality(ReduceCalls) = 2
               <=> (SumIsBart /\ TooSimilar(s_inp, s_calls[Len(s_calls) - 1].out)
                      /\ Len(s_calls) - 1 \in ReduceCalls)
          /\ s_calls[Len(s_calls)].out = Strip(s_decoded)
          /\ s_result.value = Strip(s_decoded)

\* three chunks, and a reduce pass that retried
C3_Witness ==
  /\ SumReturned
  /\ SumChunkCount = 3
  /\ Cardinality(ReduceCalls) = 2

\* C4: a summarize call with empty or whitespace-only text ends in an error
\* the caller can tell from a summary: it raises.
C4_Original ==
  (s_pc = "done" /\ Strip(s_text) = <<>>) => s_result.kind = "raise"



(***************************************************************************)
(* paraphrase_text: claims C5 to C8                                        *)
(***************************************************************************)
\* the call has returned its result
ParaReturned == p_pc = "done" /\ p_result.kind = "return"

\* the calls of one stage in the log
StageCalls(stage) == {n \in 1..Len(p_calls) : p_calls[n].stage = stage}

\* the Jaccard word overlap of two candidates is above 0.75
JaccardAbove75(a, b) ==
  4 * Cardinality(WordSet(a) \cap WordSet(b))
    > 3 * Cardinality(WordSet(a) \cup WordSet(b))

\* C5 as stated: the returned pair never has a Jaccard word overlap above 0.75
C5_Original ==
  ParaReturned =>
    ~JaccardAbove75(p_result.value[1], p_result.value[2])

\* C5: for a T5 or BART model name, a pair settled with a Jaccard word overlap
\* above 0.75 is never returned as it is: one more generation is issued and
\* its output takes the second candidate's place; that output is not checked
\* again, and for other model names the pair is returned as it is
C5_TooSimilarPairRegenerated ==
  ParaReturned =>
    /\ ( /\ InitialFamily(Lower(p_model_name)) \in {"t5", "bart"}
         /\ JaccardAbove75(p_settled[1], p_settled[2]) )
         => /\ Cardinality(StageCalls("final")) = 1
            /\ p_calls[Len(p_calls)].stage = "final"
    /\ InitialFamily(Lower(p_model_name)) \notin {"t5", "bart"}
         => /\ StageCalls("final") = {}
            /\ p_result.value = p_settled

\* C5: a BART call has settled on two equal candidates and regenerated the
\* second, and the regenerated candidate equals the first again
C5_Witness ==
  /\ ParaReturned
  /\ InitialFamily(Lower(p_model_name)) = "bart"
  /\ JaccardAbove75(p_settled[1], p_settled[2])
  /\ StageCalls("final") # {}
  /\ JaccardAbove75(p_result.value[1], p_result.value[2])

\* C6: a call that returns, returns exactly two candidates
C6_TwoCandidates ==
  ParaReturned => Len(p_result.value) = 2

\* C6: a call has returned after the initial pair, the retry and the final
\* correction
C6_Witness ==
  /\ ParaReturned
  /\ Len(p_calls) = 5
  /\ Len(p_result.value) = 2

\* how far a call is from its end
PRank(pc) ==
  CASE pc = "entry" -> 8
    [] pc = "load" -> 7
    [] pc = "gen1" -> 6
    [] pc = "gen2" -> 5
    [] pc = "retry1" -> 4
    [] pc = "retry2" -> 3
    [] pc = "final" -> 2
    [] pc = "done" -> 1
    [] OTHER -> 0

\* C7: every step of a call brings it nearer to its end, so the call
\* terminates; it issues at most five generation calls, of which at most two
\* are the retry's (one retry) and at most one is the final correction's
C7_AtMostFiveCalls ==
  [][ /\ PRank(p_pc') < PRank(p_pc)
      /\ Len(p_calls') <= 5
      /\ Cardinality({n \in 1..Len(p_calls') : p_calls'[n].stage = "initial"}) <= 2
      /\ Cardinality({n \in 1..Len(p_calls') : p_calls'[n].stage = "retry"}) <= 2
      /\ Cardinality({n \in 1..Len(p_calls') : p_calls'[n].stage = "final"}) <= 1
    ]_vars

\* C7: a call has ended after five generation calls
C7_Witness ==
  /\ p_pc = "done"
  /\ Len(p_calls) = 5
  /\ Cardinality(StageCalls("retry")) = 2
  /\ Cardinality(StageCalls("final")) = 1

\* C8: the first candidate returned is the first candidate of the settled
\* pair: the final correction leaves it as it was
C8_FirstCandidateKept ==
  ParaReturned => p_result.value[1] = p_settled[1]

\* C8: a call has returned after a final correction that changed the second
\* candidate
C8_Witness ==
  /\ ParaReturned
  /\ StageCalls("final") # {}
  /\ p_result.value[2] # p_settled[2]
  /\ p_result.value[1] = p_settled[1]

(***************************************************************************)
(* The model caches: claims C9 and C10                                     *)
(***************************************************************************)
\* C9 as stated: first loads of one model identifier are single-flight: the
\* identifier is loaded once, and the calls that use it at the same time
\* hold one and the same handle
C9_Original ==
  /\ \A id \in LoadIds : n_loads[id] <= 1
  /\ \A t1, t2 \in Threads :
       ( /\ t_pc[t1] = "use" /\ t_pc[t2] = "use"
         /\ ReqCache(t1) = ReqCache(t2) /\ ReqKey(t1) = ReqKey(t2) )
         => t_handle[t1] = t_handle[t2]

\* C10 as stated: an entry of a cache is never removed or replaced, and an
\* identifier that has its entry is never loaded again
C10_Original ==
  [][ \A c \in Caches : \A k \in DOMAIN CacheState(c) :
        /\ k \in DOMAIN CacheState(c)'
        /\ CacheState(c)'[k] = CacheState(c)[k]
        /\ n_loads'[<<c, k>>] = n_loads[<<c, k>>]
    ]_vars

\* every entry of every cache is a tuple a load has completed
EntriesComplete ==
  \A c \in Caches : \A k \in DOMAIN CacheState(c) :
    /\ CacheState(c)[k].key = k
    /\ CacheState(c)[k].serial >= 1
    /\ CacheState(c)[k].serial <= n_loads[<<c, k>>]

\* C11: a load that raises before it has stored its tuple leaves the caches as
\* they were, so every entry a caller can see is a completely loaded tuple; a
\* call gets a tuple without loading only when the identifier has its entry,
\* so after a failed load the next call for the identifier loads afresh
C11_FailedLoadLeavesNoEntry ==
  [][ /\ EntriesComplete /\ EntriesComplete'
      /\ \A t \in Threads :
           /\ (t_pc[t] \in {"check", "loading", "loading_model"}
                 /\ t_pc'[t] = "failed")
                => \A c \in Caches : CacheState(c)' = CacheState(c)
           /\ (t_pc[t] = "check" /\ t_pc'[t] \in {"use", "read"})
                => ReqKey(t) \in DOMAIN CacheState(ReqCache(t))
    ]_vars

\* C11: a load has raised after its tokenizer was loaded, and the cache has
\* no entry for the identifier
C11_Witness ==
  \E t \in Threads :
    /\ t_pc[t] = "failed"
    /\ t_local[t] = PartlyLoaded(ReqKey(t))
    /\ ReqKey(t) \notin DOMAIN CacheState(ReqCache(t))

MetricsNonBlank ==
  Strip(m_payload.reference) # <<>> /\ Strip(m_payload.candidate) # <<>>

\* the entries of a report, optional ones included
ReportMetrics(r) ==
  {r.bleu, r.perplexity} \cup
  {x[1] : x \in {r.perplexity_candidate, r.perplexity_reference, r.readability,
                 r.readability_ref_candidate} \ {<<>>}}

\* C13 as stated: the score operation returns a report for every reference
\* and candidate, blank ones included, and never ends in an error response
C13_Original ==
  m_pc = "done" => m_response.status = 200 /\ m_response.body # <<>>

\* C13: for a reference and a candidate that are both non-empty once stripped
\* the endpoint calls calculate_all_metrics once with the stripped texts and
\* returns its report with status 200, a metric that cannot be computed being
\* a marker inside the report; when either text is empty or whitespace-only
\* the endpoint ends in an error response and calculate_all_metrics is not
\* called
C13_NonBlankScoredBlankRejected ==
  m_pc = "done" =>
    IF MetricsNonBlank
    THEN /\ m_response.status = 200
         /\ Len(m_called) = 1
         /\ m_called[1].reference = Strip(m_payload.reference)
         /\ m_called[1].candidate = Strip(m_payload.candidate)
         /\ \E n \in NgramOrders :
              m_response.body = <<CalculateAllMetrics(m_called[1].reference,
                                                      m_called[1].candidate,
                                                      m_called[1].original, n)>>
         /\ \A x \in ReportMetrics(m_response.body[1]) :
              x.error \in {"", "unavailable"}
    ELSE /\ m_response.status >= 400
         /\ m_response.body = <<>>
         /\ m_called = <<>>

\* a padded reference is scored, one metric of the report unavailable
C13_Witness ==
  /\ m_pc = "done"
  /\ m_payload.reference = <<" ", "a">>
  /\ m_response.status = 200
  /\ m_response.body[1].bleu.error = ""
  /\ m_response.body[1].perplexity.error = "unavailable"

(***************************************************************************)
(* _chunk_text_by_words: number and sizes of the chunks                    *)
(***************************************************************************)
\* C14: once the chunker has returned over a text of n words with
\* max_words k >= 1, it has yielded exactly ceil(n / k) chunks, every chunk
\* but the last holds exactly k words and the last holds the remaining 1 to k
\* words; an empty or whitespace-only text yields no chunk
C14_ChunkCountAndSizes ==
  g_pc = "done" =>
    LET n == Len(Split(g_text))
        c == Len(g_out)
    IN /\ c = (n + g_k - 1) \div g_k
       /\ \A j \in 1..(c - 1) : Len(Split(g_out[j])) = g_k
       /\ c > 0 => /\ Len(Split(g_out[c])) = n - g_k * (c - 1)
                   /\ Len(Split(g_out[c])) \in 1..g_k
       /\ Strip(g_text) = <<>> => g_out = <<>>

\* "a b a" cut by two words: a full chunk and the remainder
C14_Witness ==
  /\ g_pc = "done"
  /\ g_text = <<"a", " ", "b", " ", "a">>
  /\ g_k = 2
  /\ g_out = << <<"a", " ", "b">>, <<"a">> >>

(***************************************************************************)
(* The length bounds and decode parameters of the summarize calls          *)
(***************************************************************************)
\* the table of the length classes, a class outside it read as medium
TableBounds ==
  CASE s_length = "short" -> <<30, 80>>
    [] s_length = "long" -> <<150, 300>>
    [] OTHER -> <<80, 150>>

\* the max_length of a stricter call: nine tenths of the table's maximum
TableStricterMax ==
  CASE s_length = "short" -> 72
    [] s_length = "long" -> 270
    [] OTHER -> 135

\* the (min_length, max_length) a generation call was issued with
CallBounds(i) == <<s_calls[i].kwargs.min_length, s_calls[i].kwargs.max_length>>

\* C15 as stated: every generation call of a summarize call is issued with
\* the (min_len, max_len) of the table, a class outside the table being
\* treated as medium
C15_Original == \A i \in DOMAIN s_calls : CallBounds(i) = TableBounds

\* C15: summarize_text and summarize_text_with_model resolve the bounds by
\* the table short=(30,80), medium=(80,150), long=(150,300), and a class
\* outside it is not rejected by them but treated as medium: every generation
\* call has the table's minimum as min_length; the first call of every pass
\* has the table's maximum as max_length, and the stricter second call of a
\* pass of the fine-tuned BART has nine tenths of it (72, 135, 270).  A call
\* with a class outside the table raises nothing of its own: it ends as the
\* same call with medium would.
C15_BoundsFromTable ==
  /\ \A i \in DOMAIN s_calls :
       /\ s_calls[i].attempt \in {1, 2}
       /\ s_calls[i].attempt = 1 => CallBounds(i) = TableBounds
       /\ s_calls[i].attempt = 2
            => /\ SumIsBart
               /\ CallBounds(i) = <<TableBounds[1], TableStricterMax>>
  /\ (s_pc = "done" /\ s_result.kind = "raise")
       => \/ Len(s_calls) > 0 /\ ~s_calls[Len(s_calls)].ok
          \/ s_calls = <<>> /\ s_handle = NoHandle

\* a class outside the table: the fine-tuned BART returns after a first
\* call with (80, 150) and a stricter call with (80, 135)
C15_Witness ==
  /\ SumReturned
  /\ s_length = "tiny"
  /\ Len(s_calls) = 2
  /\ CallBounds(1) = <<80, 150>>
  /\ CallBounds(2) = <<80, 135>>

\* C16 as stated: the reduce pass is issued with exactly the decode
\* parameters and bounds of each per-chunk generation call of the request
C16_Original ==
  \A i \in ReduceCalls : \A j \in ChunkCalls :
    s_calls[i].kwargs = s_calls[j].kwargs

\* C16: the reduce pass is issued as every per-chunk pass is: its first call
\* has exactly the decode parameters and (min, max) bounds of the first call
\* of each per-chunk pass of the request, and its stricter second call (the
\* fine-tuned BART only) exactly those of a per-chunk stricter call; the floor
\* of 20 never changes the minimum, which is the table's in every call.  A
\* stricter call differs from a first call, in the reduce pass as in a
\* per-chunk pass.
C16_ReducePassLikeChunkPass ==
  /\ \A i \in ReduceCalls : \A j \in ChunkCalls :
       s_calls[i].attempt = s_calls[j].attempt
         => s_calls[i].kwargs = s_calls[j].kwargs
  /\ \A i \in ReduceCalls :
       /\ ChunkCalls # {}
       /\ s_calls[i].kwargs.min_length = TableBounds[1]
       /\ s_calls[i].attempt = 1 => s_calls[i].kwargs = s_calls[1].kwargs
       /\ s_calls[i].attempt = 2 => s_calls[i].kwargs # s_calls[1].kwargs

\* short bounds: a per-chunk pass and the reduce pass both retried
C16_Witness ==
  /\ SumReturned
  /\ s_length = "short"
  /\ \E j \in ChunkCalls : s_calls[j].attempt = 2
  /\ \E i \in ReduceCalls : s_calls[i].attempt = 2
  /\ \E i \in ReduceCalls : s_calls[i].attempt = 1

(***************************************************************************)
(* paraphrase_text over empty text                                         *)
(***************************************************************************)
\* the text of the call is empty or whitespace-only
ParaBlank == Strip(p_text) = <<>>

\* a step of a call with such a text ends it at once, before any load or
\* generation, by raising e
BlankFailsWith(e) ==
  /\ p_pc' = "done"
  /\ p_result' = Raise(e)
  /\ cvars' = cvars
  /\ p_calls' = <<>> /\ p_texts' = <<>> /\ p_settled' = <<>>

\* C17 as stated: paraphrase with empty or whitespace-only text fails with
\* the empty-input error before any model load and any generation call
C17_Original ==
  [][ (ParaBlank /\ p_pc # "idle")
        => BlankFailsWith("ValueError: text must be non-empty") ]_vars

\* C17: paraphrase_text with empty or whitespace-only text fails at its
\* first step, before any model load and any generation call, leaving the
\* model cache unchanged and producing no candidate; the error is the
\* empty-input ValueError when transformers could be imported, and the
\* ValueError "transformers not available" of the check before it otherwise
C17_BlankFailsBeforeLoad ==
  [][ (ParaBlank /\ p_pc # "idle")
        => /\ p_pc = "entry"
           /\ BlankFailsWith(IF transformers_ok
                             THEN "ValueError: text must be non-empty"
                             ELSE "ValueError: transformers not available") ]_vars

\* a whitespace-only text with the model already cached: the empty-input
\* error, and the cache keeps its entry
C17_Witness ==
  /\ p_pc = "done"
  /\ ParaBlank
  /\ transformers_ok
  /\ p_result = Raise("ValueError: text must be non-empty")
  /\ p_calls = <<>>
  /\ p_model_name \in DOMAIN paraphrasing_pipelines
  /\ n_loads[<<"paraphrase", p_model_name>>] = 1

(***************************************************************************)
(* Password reset                                                          *)
(***************************************************************************)
\* the step serves a reset_password call with token
ResetCallWith(token) ==
  /\ r_last'.op = "reset"
  /\ r_last'.arg[1] = token
  /\ <<users, resets, r_last, r_success>>' # <<users, resets, r_last, r_success>>

\* C19: over any sequence of forgot-password and reset-password calls, at
\* most one reset_password call succeeds for a given token; every later call
\* with that token is answered with the failure and leaves the passwords of
\* all users, and the token's row, unchanged
C19_TokenUsedOnce ==
  [][ \A token \in TokenValues :
        /\ r_success'[token] <= 1
        /\ (r_success[token] >= 1 /\ ResetCallWith(token))
             => /\ r_last'.response.status = 400
                /\ users' = users
                /\ resets' = resets
    ]_vars

\* a token has reset a password, and a later call with it was refused
C19_Witness ==
  /\ r_last.op = "reset"
  /\ r_last.response.status = 400
  /\ r_success[r_last.arg[1]] = 1
  /\ \E i \in DOMAIN resets :
       /\ resets[i].token = r_last.arg[1]
       /\ resets[i].used
       /\ resets[i].expires_at >= now

\* the step serves a forgot_password call for email
ForgotCallFor(email) ==
  /\ r_last'.op = "forgot"
  /\ r_last'.arg[1] = email
  /\ <<resets, r_last>>' # <<resets, r_last>>

\* the response forgot_password gives whether or not the email is registered
ForgotResponse == [status |-> 200, body |-> <<GenericMessage>>]

\* C20: whatever the tables hold, forgot_password answers every email,
\* registered or not, with one and the same response, the generic message,
\* and no token is part of the response body; the call adds a row for a token
\* (and hands out its e-mail) exactly when the email belongs to a user, whose
\* row it then is
C20_ForgotResponseIndependent ==
  [][ /\ \A email \in Emails : \A tok \in TokenValues :
           LET r == ForgotPassword(users, resets, now, email, tok)
           IN  /\ r.response = ForgotResponse
               /\ \A j \in DOMAIN r.response.body :
                    r.response.body[j] \notin TokenValues
      /\ \A email \in Emails :
           ForgotCallFor(email) =>
             /\ r_last'.response = ForgotResponse
             /\ IF UserByEmail(users, email) = 0
                THEN resets' = resets /\ outbox' = outbox
                ELSE /\ Len(resets') = Len(resets) + 1
                     /\ SubSeq(resets', 1, Len(resets)) = resets
                     /\ resets'[Len(resets')].user_id
                          = users[UserByEmail(users, email)].id
                     /\ resets'[Len(resets')].token \notin IssuedTokens(resets)
                     /\ outbox' = Append(outbox,
                          [to |-> email, token |-> resets'[Len(resets')].token])
      /\ \A i \in DOMAIN resets' : UserById(users', resets'[i].user_id) # 0
    ]_vars

\* one email registered and one not, both asked for: one row, one e-mail,
\* and the answer to the unregistered one the generic message
C20_Witness ==
  /\ Len(users) = 1
  /\ Len(resets) = 1
  /\ Len(outbox) = 1
  /\ r_last.op = "forgot"
  /\ UserByEmail(users, r_last.arg[1]) = 0
  /\ r_last.response.body = <<GenericMessage>>

(***************************************************************************)
(* paraphrase_text: when the initial pair is retried                       *)
(***************************************************************************)
\* the words of a candidate, and the distinct lower-cased ones
CandWords(c) == Split(c)
CandWordSet(c) == {Lower(w) : w \in ToSet(Split(c))}

\* verdict too_short: both candidates have fewer words than 70% of the source
VerdictTooShort(pair, source) ==
  /\ 10 * Len(CandWords(pair[1])) < 7 * Len(Split(source))
  /\ 10 * Len(CandWords(pair[2])) < 7 * Len(Split(source))

\* verdict too_similar_to_sibling, first pass: more than 80% of the distinct
\* words of the first candidate are words of the second
VerdictSibling80(pair) ==
  /\ CandWordSet(pair[1]) # {}
  /\ 5 * Cardinality(CandWordSet(pair[1]) \cap CandWordSet(pair[2]))
       > 4 * Cardinality(CandWordSet(pair[1]))

\* verdict too_similar_to_source, for either candidate
VerdictSource(pair, source) ==
  TooSimilar(source, pair[1]) \/ TooSimilar(source, pair[2])

\* both candidates are empty or white space
VerdictBlank(pair) == Strip(pair[1]) = <<>> /\ Strip(pair[2]) = <<>>

\* the step decodes the second candidate of the initial pair
InitialPairDecoded == p_pc = "gen2" /\ p_result'.kind # "raise"

\* the step issues a retry generation call
RetryCallIssued ==
  /\ Len(p_calls') = Len(p_calls) + 1
  /\ p_calls'[Len(p_calls')].stage = "retry"

\* C21 as stated: the retry pair is generated if and only if one of
\* too_similar_to_source, too_short and too_similar_to_sibling is true for the
\* initial pair
C21_Original ==
  [][ InitialPairDecoded =>
        (p_pc' = "retry1" <=> \/ VerdictSource(p_texts', p_text)
                              \/ VerdictTooShort(p_texts', p_text)
                              \/ VerdictSibling80(p_texts')) ]_vars

\* C21: the retry pair is generated if and only if, for the initial pair,
\* both candidates are blank, or both have fewer words than 70% of the
\* source, or the first-pass sibling check is true; similarity of a
\* candidate to the source is not among the verdicts.  A retry generation
\* call is issued only after such a verdict on the initial pair, and when
\* none is true the call goes on without a retry call.
C21_RetryIffVerdict ==
  [][ /\ InitialPairDecoded =>
           /\ (p_pc' = "retry1" <=> \/ VerdictBlank(p_texts')
                                    \/ VerdictTooShort(p_texts', p_text)
                                    \/ VerdictSibling80(p_texts'))
           /\ p_pc' \in {"retry1", "final", "done"}
      /\ RetryCallIssued =>
           /\ p_pc \in {"retry1", "retry2"}
           /\ \/ VerdictBlank(p_texts)
              \/ VerdictTooShort(p_texts, p_text)
              \/ VerdictSibling80(p_texts)
           /\ Cardinality(StageCalls("initial")) = 2
    ]_vars

\* a candidate that repeats the source, a sibling that differs: no verdict,
\* and the call returned after its two initial calls
C21_Witness ==
  /\ ParaReturned
  /\ Len(p_calls) = 2
  /\ p_texts[1] = p_text
  /\ p_text # <<>>
  /\ ~VerdictSibling80(p_texts)

(***************************************************************************)
(* _too_similar: the verdict too_similar_to_source                         *)
(***************************************************************************)
\* the verdict as the claim defines it: equal but for case, or both a
\* word-count ratio above 0.95 and a Jaccard overlap (shared distinct words
\* over the union of the distinct words) above 0.95
SourceVerdict(src, cand) ==
  LET src_words == Split(Lower(src))
      cand_words == Split(Lower(cand))
      shared == ToSet(src_words) \cap ToSet(cand_words)
      union == ToSet(src_words) \cup ToSet(cand_words)
  IN  \/ Lower(Strip(src)) = Lower(Strip(cand))
      \/ /\ 100 * Len(cand_words) > 95 * Len(src_words)
         /\ 100 * Cardinality(shared) > 95 * Cardinality(union)

\* C22: for every prompt and every non-empty output that the fine-tuned
\* BART judges, _too_similar is true exactly when the output equals the
\* prompt case-insensitively, or both its word-count ratio and its Jaccard
\* word overlap with the prompt exceed 0.95
C22_Original ==
  SumIsBart =>
    \A i \in DOMAIN s_calls :
      (s_calls[i].ok /\ s_calls[i].out # <<>>) =>
        (TooSimilar(s_calls[i].prompt, s_calls[i].out)
           <=> SourceVerdict(s_calls[i].prompt, s_calls[i].out))

(***************************************************************************)
(* paraphrase_text: the two sibling checks                                 *)
(***************************************************************************)
\* the second-pass verdict: both word sets non-empty, and more than 75% of
\* the smaller one shared
VerdictSibling75(pair) ==
  /\ CandWordSet(pair[1]) # {}
  /\ CandWordSet(pair[2]) # {}
  /\ 4 * Cardinality(CandWordSet(pair[1]) \cap CandWordSet(pair[2]))
       > 3 * Min(Cardinality(CandWordSet(pair[1])),
                 Cardinality(CandWordSet(pair[2])))

\* C23: for every pair of candidates paraphrase_text decodes, the first-pass
\* sibling check is true exactly when |shared| / |words of the first| > 0.8
\* and the second-pass check exactly when both word sets are non-empty and
\* |shared| / min(|first|, |second|) > 0.75, over the sets of lower-cased
\* whitespace-split words; an empty candidate makes neither check true; the
\* final correction is entered only from a settled pair with the second-pass
\* verdict
C23_SiblingChecks ==
  /\ Len(p_texts) = 2 =>
       /\ SiblingsShareWords(p_texts) <=> VerdictSibling80(p_texts)
       /\ StillTooSimilar(p_texts) <=> VerdictSibling75(p_texts)
       /\ (Split(p_texts[1]) = <<>> \/ Split(p_texts[2]) = <<>>)
            => ~SiblingsShareWords(p_texts) /\ ~StillTooSimilar(p_texts)
  /\ p_pc = "final" => VerdictSibling75(p_settled)
  /\ (ParaReturned /\ StageCalls("final") = {})
       => \/ ~VerdictSibling75(p_settled)
          \/ ~HasFinalBranch(Lower(p_model_name))

\* "a b" and "a": half of the first candidate's words are shared, all of
\* the smaller one's, so only the second-pass check is true
C23_Witness ==
  /\ p_pc = "final"
  /\ p_texts = << <<"a", " ", "b">>, <<"a">> >>
  /\ ~SiblingsShareWords(p_texts)
  /\ StillTooSimilar(p_texts)

(***************************************************************************)
(* paraphrase_text: the final correction                                   *)
(***************************************************************************)
\* the model name holds the substring
NameHas(sub) == Contains(Lower(p_model_name), sub)

BoundsWordCounts == 1..MaxBoundsWords

\* the model and creativity the bounds are computed under; neither enters
\* max_new_tokens or min_new_tokens
BoundsModel == Lower(HF_bart)
BoundsCreativity == 30

InitBounds ==
  /\ b_pc = "start"
  /\ b_words \in BoundsWordCounts
  /\ b_length \in LengthClasses
  /\ b_initial = <<>> /\ b_retry = <<>>
  /\ GIdle /\ CIdle /\ SIdle /\ PIdle /\ TIdle /\ MIdle /\ RIdle /\ HIdle

\* max_new and min_new are computed and the two initial calls are issued
BoundsInitial ==
  /\ b_pc = "start"
  /\ b_initial' =
       [slot \in 1..2 |->
          StageKwargs("initial", slot, BoundsModel, Max(1, b_words), b_length,
                      BoundsCreativity)]
  /\ b_pc' = "initial"
  /\ UNCHANGED <<b_words, b_length, b_retry, hvars, core, mvars, rvars>>

\* the first pair needs a retry: the two retry calls are issued
BoundsRetry ==
  /\ b_pc = "initial"
  /\ b_retry' =
       [slot \in 1..2 |->
          StageKwargs("retry", slot, BoundsModel, Max(1, b_words), b_length,
                      BoundsCreativity)]
  /\ b_pc' = "retry"
  /\ UNCHANGED <<b_words, b_length, b_initial, hvars, core, mvars, rvars>>

NextBounds == BoundsInitial \/ BoundsRetry

SpecBounds == InitBounds /\ [][NextBounds]_vars

\* the word count the bounds are scaled from
BoundsWordCount == Max(1, b_words)

\* C25 as stated: the retry calls' min_new_tokens is larger than the initial
\* calls' min_new_tokens, for every word count and length class
C25_Original ==
  b_pc = "retry" =>
    \A i \in 1..2, j \in 1..2 :
      b_retry[j].min_new_tokens > b_initial[i].min_new_tokens

\* C25: the retry calls' min_new_tokens, max(int(0.8 * words), 24), is larger
\* than the initial calls' min_new_tokens only for a text of more than 481
\* words (length short) or 641 words (any other length), where the initial
\* bound has stopped at its ceiling of 384 or 512; for every shorter text it
\* is equal to or smaller than the initial bound.
C25_RetryMinimumLargerOnlyPastCeiling ==
  b_pc = "retry" =>
    \A i \in 1..2, j \in 1..2 :
      LET ini == b_initial[i].min_new_tokens
          ret == b_retry[j].min_new_tokens
          past == BoundsWordCount > (IF b_length = "short" THEN 481 ELSE 641)
      IN  /\ ret = Max((BoundsWordCount * 4) \div 5, 24)
          /\ ret > ini <=> past
          /\ past => ini = (IF b_length = "short" THEN 384 ELSE 512)

\* a one-word text of medium length is retried with a smaller minimum
C25_Witness ==
  /\ b_pc = "retry"
  /\ b_words = 1 /\ b_length = "medium"
  /\ b_initial[1].min_new_tokens = 32
  /\ b_retry[1].min_new_tokens = 24

\* the floor and ceiling of max_new and of min_new for a length class
MaxNewRange(length) ==
  IF length = "short" THEN 32..512
  ELSE IF length = "long" THEN 64..768
  ELSE 48..640

MinNewRange(length) ==
  IF length = "short" THEN 24..384
  ELSE IF length = "long" THEN 48..512
  ELSE 32..512

\* C26: for every word count of at least 1 and every length (short, medium,
\* long, anything else as medium) the initial calls have min_new_tokens <=
\* max_new_tokens with each bound between its class's floor and ceiling, and
\* the retry calls have min_new_tokens <= max_new_tokens.
C26_BoundsOrderedAndClamped ==
  /\ \A i \in DOMAIN b_initial :
       /\ b_initial[i].min_new_tokens <= b_initial[i].max_new_tokens
       /\ b_initial[i].max_new_tokens \in MaxNewRange(b_length)
       /\ b_initial[i].min_new_tokens \in MinNewRange(b_length)
  /\ \A j \in DOMAIN b_retry :
       b_retry[j].min_new_tokens <= b_retry[j].max_new_tokens
  /\ b_pc # "start" => DOMAIN b_initial = 1..2
  /\ b_pc = "retry" => DOMAIN b_retry = 1..2

\* a long text of an unknown length class has both initial bounds at the
\* ceilings of medium, and retry bounds above them
C26_Witness ==
  /\ b_pc = "retry"
  /\ b_words = 650 /\ b_length = "tiny"
  /\ b_initial[2].max_new_tokens = 640
  /\ b_initial[2].min_new_tokens = 512
  /\ b_retry[2].min_new_tokens = 520
  /\ b_retry[2].max_new_tokens = 975

(***************************************************************************)
(* POST /history: create_history_by_email and its duplicate guard          *)
(***************************************************************************)
\* the most rows ever inserted into history, and the latest clock value
MaxHistoryRows == 2
MaxHistoryNow == 13
\* timedelta(seconds=6)
WindowSeconds == 6

\* the emails of callers: the registered ones and one that is not
HistoryEmails == Emails \cup {"eve"}
HistoryTypes == {"summary", "paraphrase"}
HistoryModels == {"pegasus", "bart"}
HistoryOriginals == {<<"a">>, <<" ", "a">>, <<"b">>}
HistoryResults == {<<"r">>, <<"r", " ">>, <<"s">>}

\* one payload, and the fields a payload has other values in than it has
BasePayload ==
  [email |-> "ann", type |-> "summary", original_text |-> <<"a">>,
   result_text |-> <<"r">>, model |-> "pegasus"]

Differing(payload) == {f \in DOMAIN payload : payload[f] # BasePayload[f]}

\* the CreateHistoryByEmail payloads: the one, those that differ from it in
\* one field, and the one with whitespace around both of its texts
Payloads ==
  {payload \in [email : HistoryEmails, type : HistoryTypes,
                original_text : HistoryOriginals,
                result_text : HistoryResults, model : HistoryModels] :
     \/ Cardinality(Differing(payload)) <= 1
     \/ /\ Differing(payload) = {"original_text", "result_text"}
        /\ Strip(payload.original_text) = BasePayload.original_text
        /\ Strip(payload.result_text) = BasePayload.result_text}

\* the table users of a deployment where ann and bob have registered
RegisteredUsers == CreateUser(CreateUser(<<>>, "ann", "p1"), "bob", "p2")

\* crud.create_history_entry at the time t_now: the row added
HistoryRow(id, user_id, payload, t_now) ==
  [id |-> id, user_id |-> user_id, type |-> payload.type,
   original_text |-> payload.original_text,
   result_text |-> payload.result_text, model |-> payload.model,
   created_at |-> t_now]

CreateHistoryEntry(rows, id, user_id, payload, t_now) ==
  Append(rows, HistoryRow(id, user_id, payload, t_now))

\* the filter of the duplicate guard's query
InWindow(e, user_id, payload, t_now) ==
  /\ e.user_id = user_id
  /\ e.type = payload.type
  /\ e.model = payload.model
  /\ e.created_at >= t_now - WindowSeconds

\* a mutant of SameTexts: the texts are compared as sent
SameTextsAsSent(e, payload) ==
  /\ e.original_text = payload.original_text
  /\ e.result_text = payload.result_text

\* e.original_text.strip() == norm_orig and e.result_text.strip() == norm_res
SameTexts(e, payload) ==
  /\ Strip(e.original_text) = Strip(payload.original_text)
  /\ Strip(e.result_text) = Strip(payload.result_text)

\* the rows the loop over existing can return: a row of the query with the
\* payload's texts that no such row comes before; the query orders by
\* created_at descending and leaves rows of one created_at in any order
DuplicateRows(rows, user_id, payload, t_now) ==
  {i \in DOMAIN rows :
     /\ InWindow(rows[i], user_id, payload, t_now)
     /\ SameTexts(rows[i], payload)
     /\ \A j \in DOMAIN rows :
          (InWindow(rows[j], user_id, payload, t_now)
             /\ SameTexts(rows[j], payload))
            => rows[j].created_at <= rows[i].created_at}

InitHistory ==
  /\ history = <<>> /\ h_next_id = 1 /\ h_now = 0 /\ h_last = NoPost
  /\ users = RegisteredUsers
  /\ resets = <<>> /\ now = 0 /\ outbox = <<>> /\ r_last = NoCall
  /\ r_success = <<>>
  /\ GIdle /\ CIdle /\ SIdle /\ PIdle /\ TIdle /\ MIdle /\ BIdle

\* POST /history with an email no user has: 404
HistoryPostUnknown ==
  \E payload \in Payloads :
    /\ UserByEmail(users, payload.email) = 0
    /\ h_last' = [payload |-> payload, at |-> h_now, status |-> 404,
                  id |-> 0, duplicate |-> FALSE]
    /\ UNCHANGED <<history, h_next_id, h_now, bvars, core, mvars, rvars>>

\* POST /history answered from the duplicate guard
HistoryPostDuplicate ==
  \E payload \in Payloads :
    LET u == UserByEmail(users, payload.email)
    IN  /\ u # 0
        /\ \E i \in DuplicateRows(history, users[u].id, payload, h_now) :
             h_last' = [payload |-> payload, at |-> h_now, status |-> 200,
                        id |-> history[i].id, duplicate |-> TRUE]
        /\ UNCHANGED <<history, h_next_id, h_now, bvars, core, mvars, rvars>>

\* POST /history where the guard finds nothing: the entry is created
HistoryPostSaved ==
  \E payload \in Payloads :
    LET u == UserByEmail(users, payload.email)
    IN  /\ u # 0
        /\ DuplicateRows(history, users[u].id, payload, h_now) = {}
        /\ h_next_id <= MaxHistoryRows
        /\ history' = CreateHistoryEntry(history, h_next_id, users[u].id,
                                         payload, h_now)
        /\ h_next_id' = h_next_id + 1
        /\ h_last' = [payload |-> payload, at |-> h_now, status |-> 200,
                      id |-> h_next_id, duplicate |-> FALSE]
        /\ UNCHANGED <<h_now, bvars, core, mvars, rvars>>

\* a summarize or paraphrase endpoint saves its result for a user: the
\* entry is created with no duplicate guard
HistorySave ==
  \E payload \in Payloads :
    LET u == UserByEmail(users, payload.email)
    IN  /\ u # 0
        /\ h_next_id <= MaxHistoryRows
        /\ history' = CreateHistoryEntry(history, h_next_id, users[u].id,
                                         payload, h_now)
        /\ h_next_id' = h_next_id + 1
        /\ UNCHANGED <<h_now, h_last, bvars, core, mvars, rvars>>

\* DELETE /history/{entry_id} by the entry's user
HistoryDelete ==
  \E i \in DOMAIN history :
    /\ history' = [k \in 1..(Len(history) - 1) |->
                     IF k < i THEN history[k] ELSE history[k + 1]]
    /\ UNCHANGED <<h_next_id, h_now, h_last, bvars, core, mvars, rvars>>

\* time passes: up to the edge of the window, or just past it
HistoryTick ==
  \E d \in {WindowSeconds, WindowSeconds + 1} :
    /\ h_now + d <= MaxHistoryNow
    /\ h_now' = h_now + d
    /\ UNCHANGED <<history, h_next_id, h_last, bvars, core, mvars, rvars>>

NextHistory ==
  \/ HistoryPostUnknown
  \/ HistoryPostDuplicate
  \/ HistoryPostSaved
  \/ HistorySave
  \/ HistoryDelete
  \/ HistoryTick

SpecHistory == InitHistory /\ [][NextHistory]_vars

\* the rows of the table that the claim calls duplicates of a payload: same
\* user, type and model, same texts after trimming, created within the last
\* six seconds
RecentSame(payload) ==
  {i \in DOMAIN history :
     /\ UserByEmail(users, payload.email) # 0
     /\ history[i].user_id = users[UserByEmail(users, payload.email)].id
     /\ history[i].type = payload.type
     /\ history[i].model = payload.model
     /\ Strip(history[i].original_text) = Strip(payload.original_text)
     /\ Strip(history[i].result_text) = Strip(payload.result_text)
     /\ h_now - history[i].created_at <= WindowSeconds}

\* a POST /history call is served in this step
PostServed == h_last' # h_last

SumAccepted == s_pc # "entry" /\ s_result # Return(ErrNoText)

RequestFamily == InitialFamily(Lower(p_model_name))

\* the instruction each stage puts before the text for a family; the retry
\* has one instruction for BART and Flan, the final correction has one for
\* T5 and one for BART only
FamilyPrefix(stage, family) ==
  CASE stage = "initial" /\ family = "t5" -> "paraphrase: "
    [] stage = "initial" /\ family = "bart" ->
         "Paraphrase the following while keeping the original meaning: "
    [] stage = "initial" /\ family = "flan" ->
         "Rewrite the following text in a different way but keep the same meaning: "
    [] stage = "retry" /\ family = "t5" -> "paraphrase this completely: "
    [] stage = "retry" /\ family \in {"bart", "flan"} ->
         "Provide a complete paraphrase of this text with similar length: "
    [] stage = "final" /\ family = "t5" -> "rewrite completely differently: "
    [] stage = "final" /\ family = "bart" ->
         "Completely rephrase the following with different words: "
    [] OTHER -> ""

\* the instructions of the T5 family, and those a Flan model is given
T5Prefixes == {FamilyPrefix(stage, "t5") : stage \in {"initial", "retry", "final"}}
FlanPrefixes == {FamilyPrefix(stage, "flan") : stage \in {"initial", "retry"}}

\* C29: every generation call of a request, at the initial, retry and final
\* stage, has the prompt of one and the same family: the first of t5, bart,
\* flan that the lower-cased model name contains, else the default (the bare
\* text).  A name with both "flan" and "t5" gets the T5 instruction at every
\* stage and never a Flan one.
C29_SameFamilyAtEveryStage ==
  \A n \in DOMAIN p_calls :
    /\ p_calls[n].prompt.text = p_text
    /\ p_calls[n].prompt.prefix = FamilyPrefix(p_calls[n].stage, RequestFamily)
    /\ p_calls[n].stage = "final" => RequestFamily \in {"t5", "bart"}
    /\ (NameHas(<<"f", "l", "a", "n">>) /\ NameHas(<<"t", "5">>))
         => /\ RequestFamily = "t5"
            /\ p_calls[n].prompt.prefix \in T5Prefixes
            /\ p_calls[n].prompt.prefix \notin FlanPrefixes

\* a request for google/flan-t5-large that went through the initial pair, the
\* retry and the final correction
C29_Witness ==
  /\ ParaReturned
  /\ p_model_name = HF_flan_t5
  /\ StageCalls("initial") # {}
  /\ StageCalls("retry") # {}
  /\ StageCalls("final") # {}

(***************************************************************************)
(* POST /evaluate/metrics: the status of a rejected request                *)
(***************************************************************************)
\* C30: when the reference or the candidate is empty after trimming, the
\* endpoint responds with status 422 and calculate_all_metrics is not called
C30_Original ==
  (m_pc = "done" /\ ~MetricsNonBlank)
    => m_response.status = 422 /\ m_called = <<>>

====
